---- MODULE Spec2Model ----
(***************************************************************************)
(* A model of SimpleCRM (src/script.js): the venue store, the derived      *)
(* (filtered, sorted, paginated) view, the edit form, the change history   *)
(* and the persisted snapshot.                                             *)
(*                                                                         *)
(* Strings are sequences of symbols.  A symbol is one character ("\t",     *)
(* "\n", " ", a letter, a digit) or a whole word that the program only     *)
(* ever handles as a unit (a header name, a stage token, a city name).     *)
(* JavaScript objects have identity: a venue is a reference into `heap`,   *)
(* and `venues` and `filteredVenues` are arrays of references.             *)
(***************************************************************************)
EXTENDS Integers, Sequences, FiniteSets, TLC

VARIABLES
    heap,              \* reference -> venue object (a function header -> string)
    venues,            \* this.venues: array of references
    filteredVenues,    \* this.filteredVenues: array of references
    headers,           \* this.headers: array of strings
    currentEditIndex,  \* this.currentEditIndex (0-based, -1 = none)
    tempNewVenue,      \* this.tempNewVenue: a reference, or NullRef
    sortColumn,        \* this.sortColumn: a header, or NoColumn
    sortDirection,     \* this.sortDirection: "asc" | "desc"
    currentPage,       \* this.currentPage
    pageSize,          \* this.pageSize
    totalPages,        \* this.totalPages
    statusFilters,     \* this.statusFilters (the set of its elements)
    regionFilters,     \* this.regionFilters
    typeFilters,       \* this.typeFilters
    history,           \* this.history: newest first
    searchFilter,      \* value of the #searchFilter input
    searchTimer,       \* TRUE while the debounced search has a timer pending
    modalOpen,         \* #editModal is displayed
    form,              \* dataset.field -> input.value of the edit modal's inputs
    saveTimer,         \* TRUE while clearAllFilters' setTimeout(save, 0) is pending
    storage,           \* localStorage['crmData'] (parsed), or absent
    now,               \* the clock read by new Date()
    hiddenColumns,     \* this.hiddenColumns (a Set of headers)
    minVenueCount,     \* this.minVenueCount
    mapCenter,         \* this.mapCenter
    mapZoom,           \* this.mapZoom
    historyPageSize,   \* this.historyPageSize
    historySearchFilter, \* this.historySearchFilter
    historySearchInput,  \* value of the #historySearchFilter input
    historyTimer,      \* TRUE while the debounced history search has a timer pending
    historyCurrentPage,  \* this.historyCurrentPage
    historyTotalPages,   \* this.historyTotalPages
    historyTableBody,  \* the entries in the rows of #historyTableBody
    quotaExceeded,     \* TRUE while localStorage.setItem throws (no room left)
    geoData,           \* this.geoData: the index of coordinates by location key
    located,           \* the last call of geocodeLocation and what it returned
    timing,            \* per debounced input: the time left on its timer, the
                       \* time since its last input event, the events it served
    lastOp             \* the handler that ran last, with its inputs and outcome

vars == <<heap, venues, filteredVenues, headers, currentEditIndex, tempNewVenue,
          sortColumn, sortDirection, currentPage, pageSize, totalPages,
          statusFilters, regionFilters, typeFilters, history, searchFilter,
          searchTimer, saveTimer, modalOpen, form, storage, now, hiddenColumns,
          minVenueCount, mapCenter, mapZoom, historyPageSize, historySearchFilter,
          historySearchInput, historyTimer, historyCurrentPage, historyTotalPages,
          historyTableBody, quotaExceeded, geoData, located, timing, lastOp>>

(***************************************************************************)
(* Bounds of the model.                                                    *)
(***************************************************************************)
MaxVenues == 3      \* imports and adds are refused beyond this many records
MaxTime == 5        \* a session is this many runs of handlers long

(***************************************************************************)
(* Strings.                                                                *)
(***************************************************************************)
TAB == "\t"
NL == "\n"
SP == " "
Empty == <<>>
Whitespace == {TAB, NL, SP}

Range(f) == {f[i] : i \in DOMAIN f}

Max(a, b) == IF a >= b THEN a ELSE b

Min(a, b) == IF a <= b THEN a ELSE b

\* String.prototype.trim
RECURSIVE TrimStart(_)
TrimStart(s) ==
    IF s = <<>> THEN <<>>
    ELSE IF Head(s) \in Whitespace THEN TrimStart(Tail(s)) ELSE s

RECURSIVE TrimEnd(_)
TrimEnd(s) ==
    IF s = <<>> THEN <<>>
    ELSE IF s[Len(s)] \in Whitespace THEN TrimEnd(SubSeq(s, 1, Len(s) - 1)) ELSE s

Trim(s) == TrimEnd(TrimStart(s))

\* String.prototype.toLowerCase, symbol by symbol
LowerSym(c) ==
    CASE c = "A" -> "a"
      [] c = "B" -> "b"
      [] c = "Paris" -> "paris"
      [] c = "TX" -> "tx"
      [] c = "CANVAS" -> "canvas"
      [] c = "FOLLOW-UP" -> "follow-up"
      [] c = "BOOKED" -> "booked"
      [] c = "BOOK-AGAIN" -> "book-again"
      [] c = "Venue" -> "venue"
      [] c = "City" -> "city"
      [] c = "State" -> "state"
      [] c = "Status" -> "status"
      [] c = "Region" -> "region"
      [] c = "Type" -> "type"
      [] c = "Last Updated" -> "last updated"
      [] c = "T" -> "t"
      [] c = "L" -> "l"
      [] c = "(COPY)" -> "(copy)"
      [] OTHER -> c

ToLowerCase(s) == [i \in 1..Len(s) |-> LowerSym(s[i])]

\* String.prototype.includes
Includes(s, sub) ==
    \E i \in 0..(Len(s) - Len(sub)) : SubSeq(s, i + 1, i + Len(sub)) = sub

\* String.prototype.split(sep) for a one-symbol separator
RECURSIVE Split(_, _)
Split(s, sep) ==
    IF \E i \in 1..Len(s) : s[i] = sep
    THEN LET i == CHOOSE k \in 1..Len(s) :
                      s[k] = sep /\ \A j \in 1..(k - 1) : s[j] # sep
         IN  <<SubSeq(s, 1, i - 1)>> \o Split(SubSeq(s, i + 1, Len(s)), sep)
    ELSE <<s>>

\* Array.prototype.join(sep)
RECURSIVE Join(_, _)
Join(cells, sep) ==
    IF cells = <<>> THEN <<>>
    ELSE IF Len(cells) = 1 THEN cells[1]
    ELSE cells[1] \o <<sep>> \o Join(Tail(cells), sep)

\* Array.prototype.findIndex with an identity test, 1-based, 0 = not found
IndexOf(seq, x) ==
    IF \E i \in 1..Len(seq) : seq[i] = x
    THEN CHOOSE i \in 1..Len(seq) : seq[i] = x /\ \A j \in 1..(i - 1) : seq[j] # x
    ELSE 0

\* Array.prototype.splice(index, 1), 1-based
RemoveAt(seq, i) == SubSeq(seq, 1, i - 1) \o SubSeq(seq, i + 1, Len(seq))

(***************************************************************************)
(* Venue objects.                                                          *)
(***************************************************************************)
kVenue == <<"Venue">>
kCity == <<"City">>
kState == <<"State">>
kStatus == <<"Status">>
kRegion == <<"Region">>
kType == <<"Type">>
kLastUpdated == <<"Last Updated">>
\* the property name that venue[input.dataset.field] gets for an input that
\* has no data-field attribute
kUndefined == <<"undefined">>

\* venue[key] || ''
Val(venue, key) == IF key \in DOMAIN venue THEN venue[key] ELSE Empty

\* venue[key] = value
Put(venue, key, value) ==
    [k \in (DOMAIN venue) \cup {key} |-> IF k = key THEN value ELSE venue[k]]

\* new Date().toISOString() at clock value t
Digit == <<"0", "1", "2", "3", "4", "5", "6", "7", "8", "9">>
ISO(t) == <<"T", Digit[t + 1]>>

\* the clock value of an ISO string
TimeOf(iso) == (CHOOSE d \in 1..Len(Digit) : Digit[d] = iso[2]) - 1

\* new Date(iso).toLocaleString(): the milliseconds are dropped, so that two
\* instants of the same second print alike
TicksPerSecond == 2
ToLocaleString(iso) == <<"L", Digit[(TimeOf(iso) \div TicksPerSecond) + 1]>>

NullRef == 0
NoColumn == <<"<null>">>

\* getVenueId
GetVenueId(venue) ==
    ToLowerCase(Trim(Val(venue, kVenue))) \o <<"|">> \o
    ToLowerCase(Trim(Val(venue, kCity))) \o <<"|">> \o
    ToLowerCase(Trim(Val(venue, kState)))

\* isDuplicateVenue against the records `existing` (the objects of this.venues)
IsDuplicateVenueMissingTrim(newVenue, existing) ==
    LET newVenueName == ToLowerCase(Val(newVenue, kVenue))
        newCity == ToLowerCase(Val(newVenue, kCity))
        newState == ToLowerCase(Val(newVenue, kState))
    IN  IF newVenueName = Empty \/ newCity = Empty \/ newState = Empty
        THEN FALSE
        ELSE \E i \in 1..Len(existing) :
                /\ ToLowerCase(Trim(Val(existing[i], kVenue))) = newVenueName
                /\ ToLowerCase(Trim(Val(existing[i], kCity))) = newCity
                /\ ToLowerCase(Trim(Val(existing[i], kState))) = newState

IsDuplicateVenue(newVenue, existing) ==
    LET newVenueName == ToLowerCase(Trim(Val(newVenue, kVenue)))
        newCity == ToLowerCase(Trim(Val(newVenue, kCity)))
        newState == ToLowerCase(Trim(Val(newVenue, kState)))
    IN  IF newVenueName = Empty \/ newCity = Empty \/ newState = Empty
        THEN FALSE
        ELSE \E i \in 1..Len(existing) :
                /\ ToLowerCase(Trim(Val(existing[i], kVenue))) = newVenueName
                /\ ToLowerCase(Trim(Val(existing[i], kCity))) = newCity
                /\ ToLowerCase(Trim(Val(existing[i], kState))) = newState

\* the objects of this.venues, in order
StoreRecords(s) == [i \in 1..Len(s.venues) |-> s.heap[s.venues[i]]]

\* the objects of this.filteredVenues, in order
ViewRecords(s) == [i \in 1..Len(s.filteredVenues) |-> s.heap[s.filteredVenues[i]]]

\* a reference no array holds yet
FreshRef(s, k) == Len(s.heap) + k

(***************************************************************************)
(* Pagination.                                                             *)
(***************************************************************************)
\* Math.ceil(n / d) for n >= 0, d > 0
CeilDiv(n, d) == (n + d - 1) \div d

\* calculatePagination without the clamp of currentPage
CalculatePaginationNoClamp(s) ==
    [s EXCEPT !.totalPages = CeilDiv(Len(s.filteredVenues), s.pageSize)]

\* calculatePagination
CalculatePagination(s) ==
    LET tp == CeilDiv(Len(s.filteredVenues), s.pageSize)
    IN  [s EXCEPT !.totalPages = tp,
                  !.currentPage = IF s.currentPage > tp THEN Max(1, tp)
                                  ELSE s.currentPage]

\* updateTable: the table is rendered from filteredVenues; the state it
\* changes is that of calculatePagination
UpdateTable(s) == CalculatePagination(s)

(***************************************************************************)
(* Persistence and history.                                                *)
(***************************************************************************)
\* the object saveToLocalStorage serializes
Snapshot(s) ==
    [venues |-> StoreRecords(s),
     headers |-> s.headers,
     sortColumn |-> s.sortColumn,
     sortDirection |-> s.sortDirection,
     pageSize |-> s.pageSize,
     statusFilters |-> s.statusFilters,
     regionFilters |-> s.regionFilters,
     typeFilters |-> s.typeFilters,
     history |-> s.history,
     hiddenColumns |-> s.hiddenColumns,
     minVenueCount |-> s.minVenueCount,
     mapCenter |-> s.mapCenter,
     mapZoom |-> s.mapZoom,
     historyPageSize |-> s.historyPageSize,
     historySearchFilter |-> s.historySearchFilter,
     shape |-> "object"]

\* a saveToLocalStorage that drops the history to make room when the write
\* fails
SaveToLocalStorageDropsHistory(s) ==
    IF s.quotaExceeded THEN [s EXCEPT !.history = <<>>]
    ELSE [s EXCEPT !.storage = <<Snapshot(s)>>]

\* saveToLocalStorage: setItem throws while there is no room, and the catch
\* logs a warning
SaveToLocalStorage(s) ==
    IF s.quotaExceeded THEN s ELSE [s EXCEPT !.storage = <<Snapshot(s)>>]

\* entry.action.toLowerCase(), as characters
ActionText(action) ==
    CASE action = "Add" -> <<"a", "d", "d">>
      [] action = "Edit" -> <<"e", "d", "i", "t">>
      [] action = "Delete" -> <<"d", "e", "l", "e", "t", "e">>

\* the filter callback of updateHistoryTable
HistoryEntryMatches(entry, term) ==
    LET searchTerm == ToLowerCase(term)
    IN  \/ Includes(ToLowerCase(entry.venueName), searchTerm)
        \/ Includes(ToLowerCase(entry.city), searchTerm)
        \/ Includes(ToLowerCase(entry.state), searchTerm)
        \/ Includes(ActionText(entry.action), searchTerm)
        \/ \E change \in entry.changes :
               \/ Includes(ToLowerCase(change.field), searchTerm)
               \/ change.oldValue # Empty
                     /\ Includes(ToLowerCase(change.oldValue), searchTerm)
               \/ change.newValue # Empty
                     /\ Includes(ToLowerCase(change.newValue), searchTerm)

\* the entries of the history that pass the search filter
FilteredHistory(entries, term) ==
    LET Passes(entry) == HistoryEntryMatches(entry, term)
    IN  IF term = Empty THEN entries
        ELSE SelectSeq(entries, Passes)

\* array.slice(startIndex, endIndex)
Slice(array, startIndex, endIndex) ==
    SubSeq(array, startIndex + 1, Min(endIndex, Len(array)))

\* an updateHistoryTable that does not clamp the page
UpdateHistoryTableNoClamp(s) ==
    LET filteredHistory == FilteredHistory(s.history, s.historySearchFilter)
        startIndex == (s.historyCurrentPage - 1) * s.historyPageSize
    IN  [s EXCEPT !.historyTotalPages =
                      CeilDiv(Len(filteredHistory), s.historyPageSize),
                  !.historyTableBody =
                      Slice(filteredHistory, startIndex,
                            startIndex + s.historyPageSize)]

\* updateHistoryTable
UpdateHistoryTable(s) ==
    LET filteredHistory == FilteredHistory(s.history, s.historySearchFilter)
        total == CeilDiv(Len(filteredHistory), s.historyPageSize)
        page == IF s.historyCurrentPage > total THEN Max(1, total)
                ELSE s.historyCurrentPage
        startIndex == (page - 1) * s.historyPageSize
    IN  [s EXCEPT !.historyTotalPages = total,
                  !.historyCurrentPage = page,
                  !.historyTableBody =
                      Slice(filteredHistory, startIndex,
                            startIndex + s.historyPageSize)]

\* addHistoryEntry that records nothing
AddHistoryEntryDropped(s, action, venue, changes) == SaveToLocalStorage(s)

\* an addHistoryEntry that pushes the entry to the end of the array
AddHistoryEntryAtEnd(s, action, venue, changes) ==
    LET historyEntry ==
            [timestamp |-> ISO(s.now),
             action |-> action,
             venueId |-> GetVenueId(venue),
             venueName |-> IF Val(venue, kVenue) = Empty
                           THEN <<"Unknown Venue">> ELSE Val(venue, kVenue),
             city |-> Val(venue, kCity),
             state |-> Val(venue, kState),
             changes |-> changes]
    IN  SaveToLocalStorage(UpdateHistoryTable(
            [s EXCEPT !.history = Append(s.history, historyEntry)]))

\* addHistoryEntry; changes = {} stands for null
AddHistoryEntry(s, action, venue, changes) ==
    LET historyEntry ==
            [timestamp |-> ISO(s.now),
             action |-> action,
             venueId |-> GetVenueId(venue),
             venueName |-> IF Val(venue, kVenue) = Empty
                           THEN <<"Unknown Venue">> ELSE Val(venue, kVenue),
             city |-> Val(venue, kCity),
             state |-> Val(venue, kState),
             changes |-> changes]
    IN  SaveToLocalStorage(UpdateHistoryTable(
            [s EXCEPT !.history = <<historyEntry>> \o s.history]))

\* getChangesDescription: the set of {field, oldValue, newValue}; {} for null
GetChangesDescription(oldVenue, newVenue) ==
    {[field |-> key, oldValue |-> Val(oldVenue, key), newValue |-> Val(newVenue, key)] :
        key \in {k \in (DOMAIN oldVenue) \cup (DOMAIN newVenue) :
                    Val(oldVenue, k) # Val(newVenue, k)}}

(***************************************************************************)
(* Sorting.                                                                *)
(***************************************************************************)
DigitSet == Range(Digit)

\* the symbols in the order of their code units (words are ordered as units)
CharOrder ==
    <<TAB, NL, SP, "(copy)", "0", "1", "2", "3", "4", "5", "6", "7", "8", "9",
      "a", "b", "book-again", "booked", "canvas", "city", "follow-up", "l",
      "last updated", "paris", "region", "state", "status", "t", "tx", "type",
      "undefined", "venue", "|">>

SymRank(c) == IndexOf(CharOrder, c)

\* a < b for strings (the comparison of their code units)
RECURSIVE StrLess(_, _)
StrLess(a, b) ==
    IF b = <<>> THEN FALSE
    ELSE IF a = <<>> THEN TRUE
    ELSE IF SymRank(Head(a)) < SymRank(Head(b)) THEN TRUE
    ELSE IF SymRank(Head(a)) > SymRank(Head(b)) THEN FALSE
    ELSE StrLess(Tail(a), Tail(b))

\* !isNaN(str): Number(str) trims, reads "" as 0 and a digit string as its value
IsNumeric(str) == \A i \in 1..Len(Trim(str)) : Trim(str)[i] \in DigitSet

\* parseFloat(str) || 0 for a string that IsNumeric
RECURSIVE DigitsValue(_)
DigitsValue(d) ==
    IF d = <<>> THEN 0
    ELSE 10 * DigitsValue(SubSeq(d, 1, Len(d) - 1)) + TimeOf(<<"T", d[Len(d)]>>)

ParseFloatOr0(str) == DigitsValue(Trim(str))

\* the comparator of sortByColumn and applyCurrentSort: -1, 0 or 1
CompareByColumn(a, b, column, direction) ==
    LET aVal == Val(a, column)
        bVal == Val(b, column)
        numeric == IsNumeric(aVal) /\ IsNumeric(bVal)
        less == IF numeric THEN ParseFloatOr0(aVal) < ParseFloatOr0(bVal)
                ELSE StrLess(ToLowerCase(aVal), ToLowerCase(bVal))
        greater == IF numeric THEN ParseFloatOr0(aVal) > ParseFloatOr0(bVal)
                   ELSE StrLess(ToLowerCase(bVal), ToLowerCase(aVal))
    IN  IF less THEN (IF direction = "asc" THEN -1 ELSE 1)
        ELSE IF greater THEN (IF direction = "asc" THEN 1 ELSE -1)
        ELSE 0

\* the comparator of the re-sort by Last Updated in saveEdit, addToKanban and
\* moveToNextStage: dates when both are set, '' before any date otherwise
CompareByLastUpdated(a, b, direction) ==
    LET aKey == IF Val(a, kLastUpdated) = Empty THEN -1 ELSE TimeOf(Val(a, kLastUpdated))
        bKey == IF Val(b, kLastUpdated) = Empty THEN -1 ELSE TimeOf(Val(b, kLastUpdated))
    IN  IF aKey < bKey THEN (IF direction = "asc" THEN -1 ELSE 1)
        ELSE IF aKey > bKey THEN (IF direction = "asc" THEN 1 ELSE -1)
        ELSE 0

Compare(a, b, mode) ==
    IF mode.kind = "date" THEN CompareByLastUpdated(a, b, mode.direction)
    ELSE CompareByColumn(a, b, mode.column, mode.direction)

\* Array.prototype.sort (stable): insertion of each element after the elements
\* that do not compare greater
RECURSIVE InsertSorted(_, _, _, _)
InsertSorted(sorted, x, hp, mode) ==
    IF sorted = <<>> THEN <<x>>
    ELSE IF Compare(hp[sorted[Len(sorted)]], hp[x], mode) > 0
         THEN InsertSorted(SubSeq(sorted, 1, Len(sorted) - 1), x, hp, mode)
                  \o <<sorted[Len(sorted)]>>
         ELSE sorted \o <<x>>

RECURSIVE SortRefs(_, _, _)
SortRefs(refs, hp, mode) ==
    IF refs = <<>> THEN <<>>
    ELSE InsertSorted(SortRefs(SubSeq(refs, 1, Len(refs) - 1), hp, mode),
                      refs[Len(refs)], hp, mode)

\* the comparator orders the objects of refs consistently: its "less",
\* "equal" and "greater" are transitive (ECMAScript's consistent comparator)
ConsistentComparator(refs, hp, mode) ==
    \A a, b, c \in Range(refs) :
        LET ab == Compare(hp[a], hp[b], mode)
            bc == Compare(hp[b], hp[c], mode)
            ac == Compare(hp[a], hp[c], mode)
        IN  /\ (ab < 0 /\ bc < 0) => ac < 0
            /\ (ab = 0 /\ bc = 0) => ac = 0
            /\ (ab > 0 /\ bc > 0) => ac > 0

\* the arrangements of refs
Arrangements(refs) ==
    {p \in [1..Len(refs) -> Range(refs)] :
        \A r \in 1..Len(refs) : \E i \in 1..Len(refs) : p[i] = refs[r]}

\* what Array.prototype.sort may leave in the array: the stable order under a
\* consistent comparator, an implementation-defined order under any other
SortOutcomes(refs, hp, mode) ==
    IF ConsistentComparator(refs, hp, mode) THEN {SortRefs(refs, hp, mode)}
    ELSE Arrangements(refs)

\* the re-sort that saveEdit, addToKanban and moveToNextStage do before updateTable
ResortIfLastUpdated(s) ==
    IF s.sortColumn = kLastUpdated
    THEN [s EXCEPT !.filteredVenues =
              SortRefs(s.filteredVenues, s.heap,
                       [kind |-> "date", direction |-> s.sortDirection])]
    ELSE s

\* applyCurrentSort
ApplyCurrentSort(s) ==
    IF s.sortColumn = NoColumn \/ s.sortColumn = Empty THEN s
    ELSE UpdateTable([s EXCEPT !.filteredVenues =
             SortRefs(s.filteredVenues, s.heap,
                      [kind |-> "column", column |-> s.sortColumn,
                       direction |-> s.sortDirection])])

(***************************************************************************)
(* Filtering.                                                              *)
(***************************************************************************)
\* the predicate of the filter callback in applyFilters
PassesFilters(venue, status, region, type, search) ==
    LET statusMatch == status = {} \/
            (Val(venue, kStatus) # Empty /\ Val(venue, kStatus) \in status)
        regionMatch == region = {} \/
            (Val(venue, kRegion) # Empty /\ Val(venue, kRegion) \in region)
        typeMatch == type = {} \/
            (Val(venue, kType) # Empty /\ Val(venue, kType) \in type)
        searchMatch == search = Empty \/
            \E k \in DOMAIN venue :
                venue[k] # Empty /\ Includes(ToLowerCase(venue[k]), search)
    IN  statusMatch /\ regionMatch /\ typeMatch /\ searchMatch

\* applyFilters
ApplyFilters(s) ==
    LET search == ToLowerCase(s.searchFilter)
        Keep(ref) == PassesFilters(s.heap[ref], s.statusFilters, s.regionFilters,
                                   s.typeFilters, search)
        kept == IF s.statusFilters = {} /\ s.regionFilters = {} /\
                   s.typeFilters = {} /\ search = Empty
                THEN s.venues
                ELSE SelectSeq(s.venues, Keep)
        s1 == [s EXCEPT !.filteredVenues = kept, !.currentPage = 1]
    IN  IF s1.sortColumn = NoColumn \/ s1.sortColumn = Empty
        THEN UpdateTable(s1)
        ELSE ApplyCurrentSort(s1)

(***************************************************************************)
(* Import and export.                                                      *)
(***************************************************************************)
\* the index of the last header equal to key (a later assignment to the same
\* property wins)
LastIndexOf(seq, x) == CHOOSE i \in 1..Len(seq) :
                          seq[i] = x /\ \A j \in (i + 1)..Len(seq) : seq[j] # x

\* the body of importData's row loop: venue[headers[j]] = values[j] || '',
\* then the Last Updated stamp
RowVenue(hdrs, values, t) ==
    Put([k \in Range(hdrs) |->
            LET j == LastIndexOf(hdrs, k)
            IN  IF j <= Len(values) THEN values[j] ELSE Empty],
        kLastUpdated, ISO(t))

\* the rows importData accepts, in order, among lines[from..]; each row is
\* tested with isDuplicateVenue against `existing`
RECURSIVE ParseRows(_, _, _, _, _)
ParseRows(lines, from, hdrs, existing, t) ==
    IF from > Len(lines) THEN [newVenues |-> <<>>, duplicateCount |-> 0]
    ELSE LET rest == ParseRows(lines, from + 1, hdrs, existing, t)
             line == Trim(lines[from])
             venue == RowVenue(hdrs, Split(line, TAB), t)
         IN  IF line = Empty THEN rest
             ELSE IF ~IsDuplicateVenue(venue, existing)
                  THEN [rest EXCEPT !.newVenues = <<venue>> \o rest.newVenues]
                  ELSE [rest EXCEPT !.duplicateCount = rest.duplicateCount + 1]

NotLastUpdated(h) == h # kLastUpdated

\* a headersMatch that compares the lengths only
HeadersMatchLengthOnly(newHeaders, existingHeaders) ==
    Len(newHeaders) = Len(existingHeaders)

\* headersMatch
HeadersMatch(newHeaders, existingHeaders) ==
    /\ Len(newHeaders) = Len(existingHeaders)
    /\ \A i \in 1..Len(existingHeaders) : newHeaders[i] = existingHeaders[i]

\* an importData that takes the headers of every import
ImportParseAdoptsHeaders(hdrs0, existing, rawText, t) ==
    LET data == Trim(rawText)
        lines == Split(data, NL)
        split0 == Split(lines[1], TAB)
        newHeaders == IF kLastUpdated \in Range(split0) THEN split0
                      ELSE Append(split0, kLastUpdated)
        rows == ParseRows(lines, 2, newHeaders, existing, t)
        none == [headers |-> hdrs0, newVenues |-> <<>>, duplicateCount |-> 0]
    IN  IF data = Empty THEN none @@ [outcome |-> "NoData"]
        ELSE IF Len(lines) < 2 THEN none @@ [outcome |-> "NoRows"]
        ELSE IF hdrs0 # <<>> /\
                ~HeadersMatch(SelectSeq(newHeaders, NotLastUpdated),
                              SelectSeq(hdrs0, NotLastUpdated))
             THEN none @@ [outcome |-> "SchemaMismatch"]
        ELSE [headers |-> newHeaders, newVenues |-> rows.newVenues,
              duplicateCount |-> rows.duplicateCount, outcome |-> "Imported"]

\* importData up to the assignment of this.venues: what the text is parsed to
ImportParse(hdrs0, existing, rawText, t) ==
    LET data == Trim(rawText)
        lines == Split(data, NL)
        split0 == Split(lines[1], TAB)
        newHeaders == IF kLastUpdated \in Range(split0) THEN split0
                      ELSE Append(split0, kLastUpdated)
        hdrs == IF hdrs0 = <<>> THEN newHeaders ELSE hdrs0
        rows == ParseRows(lines, 2, hdrs, existing, t)
        none == [headers |-> hdrs0, newVenues |-> <<>>, duplicateCount |-> 0]
    IN  IF data = Empty THEN none @@ [outcome |-> "NoData"]
        ELSE IF Len(lines) < 2 THEN none @@ [outcome |-> "NoRows"]
        ELSE IF hdrs0 # <<>> /\
                ~HeadersMatch(SelectSeq(newHeaders, NotLastUpdated),
                              SelectSeq(hdrs0, NotLastUpdated))
             THEN none @@ [outcome |-> "SchemaMismatch"]
        ELSE [headers |-> hdrs, newVenues |-> rows.newVenues,
              duplicateCount |-> rows.duplicateCount, outcome |-> "Imported"]

\* importData
ImportData(s, rawText) ==
    LET p == ImportParse(s.headers, StoreRecords(s), rawText, s.now)
        n == Len(p.newVenues)
        newRefs == [k \in 1..n |-> FreshRef(s, k)]
        s1 == [s EXCEPT !.headers = p.headers,
                        !.heap = s.heap \o p.newVenues,
                        !.venues = s.venues \o newRefs,
                        !.filteredVenues = s.venues \o newRefs]
    IN  IF p.outcome # "Imported" THEN s
        ELSE SaveToLocalStorage(UpdateTable(s1))

\* exportData: the text of the downloaded file
RECURSIVE ExportRows(_, _)
ExportRows(records, hdrs) ==
    IF records = <<>> THEN <<>>
    ELSE Join([j \in 1..Len(hdrs) |-> Val(records[1], hdrs[j])], TAB) \o <<NL>>
             \o ExportRows(Tail(records), hdrs)

ExportData(s) == Join(s.headers, TAB) \o <<NL>> \o ExportRows(StoreRecords(s), s.headers)

(***************************************************************************)
(* The edit modal.                                                         *)
(***************************************************************************)
\* the headers whose input is a <select> filled with the store's values
SelectFields == {kRegion, kType, kStatus, <<"Genre">>}

\* the option values of the <select> of a header: '' and every distinct
\* non-empty value of this.venues
SelectOptions(s, header) ==
    {Empty} \cup {Val(s.heap[s.venues[i]], header) : i \in 1..Len(s.venues)}

\* populateGeneralForm, populateVenueForm, populateBookingForm and
\* populateContactForm: one input per header other than Last Updated, keyed by
\* its data-field, and the read-only Last Updated input, which has none
PopulateForms(s, venue) ==
    LET fields == {h \in Range(s.headers) : h # kLastUpdated}
        keys == fields \cup
                (IF kLastUpdated \in Range(s.headers) THEN {kUndefined} ELSE {})
    IN  [k \in keys |->
            IF k = kUndefined /\ k \notin fields
            THEN (IF Val(venue, kLastUpdated) = Empty THEN Empty
                  ELSE ToLocaleString(Val(venue, kLastUpdated)))
            ELSE IF k \in SelectFields /\ Val(venue, k) \notin SelectOptions(s, k)
                 THEN Empty
                 ELSE Val(venue, k)]

\* openModal after the forms are populated
OpenModal(s, venue) == [s EXCEPT !.form = PopulateForms(s, venue), !.modalOpen = TRUE]

\* closeModal
\* a closeModal that keeps the temporary new venue
CloseModalKeepsTemp(s) ==
    [s EXCEPT !.modalOpen = FALSE, !.form = <<>>, !.currentEditIndex = -1]

CloseModal(s) ==
    [s EXCEPT !.modalOpen = FALSE, !.form = <<>>,
              !.currentEditIndex = -1, !.tempNewVenue = NullRef]

\* editRow
EditRow(s, index) ==
    OpenModal([s EXCEPT !.currentEditIndex = index],
              s.heap[s.filteredVenues[index + 1]])

\* allInputs.forEach(input => venue[input.dataset.field] = input.value)
ApplyInputs(venue, inputs) ==
    [k \in (DOMAIN venue) \cup (DOMAIN inputs) |->
        IF k \in DOMAIN inputs THEN inputs[k] ELSE venue[k]]

\* saveEdit, the branch for an existing venue (lines 1880-1903)
SaveEditExisting(s, inputs) ==
    LET ref == s.filteredVenues[s.currentEditIndex + 1]
        originalVenue == s.heap[ref]
        edited == ApplyInputs(originalVenue, inputs)
        changes == GetChangesDescription(originalVenue, edited)
        venue == IF changes # {} THEN Put(edited, kLastUpdated, ISO(s.now)) ELSE edited
        s1 == [s EXCEPT !.heap[ref] = venue]
        s2 == IF changes # {} THEN AddHistoryEntry(s1, "Edit", venue, changes) ELSE s1
        originalIndex == IndexOf(s2.venues, ref)
        copy == FreshRef(s2, 1)
    IN  IF originalIndex # 0
        THEN [s2 EXCEPT !.heap = Append(s2.heap, venue),
                        !.venues[originalIndex] = copy]
        ELSE s2

\* saveEdit, the branch for a new venue (lines 1858-1878)
SaveEditNew(s, inputs) ==
    LET ref == s.tempNewVenue
        venue == ApplyInputs(s.heap[ref], inputs)
        s1 == [s EXCEPT !.heap[ref] = venue,
                        !.venues = Append(s.venues, ref),
                        !.filteredVenues = Append(s.venues, ref)]
        s2 == CalculatePagination(AddHistoryEntry(s1, "Add", venue, {}))
    IN  [s2 EXCEPT !.currentPage = s2.totalPages]

\* saveEdit.  With currentEditIndex past the end of filteredVenues, venue is
\* undefined and the handler ends in a TypeError before it changes anything.
SaveEditThrows(s) ==
    /\ s.currentEditIndex # -1
    /\ s.currentEditIndex + 1 > Len(s.filteredVenues)

SaveEdit(s, inputs) ==
    IF SaveEditThrows(s) THEN s
    ELSE LET s1 == IF s.currentEditIndex = -1 THEN SaveEditNew(s, inputs)
                   ELSE SaveEditExisting(s, inputs)
         IN  CloseModal(SaveToLocalStorage(UpdateTable(ResortIfLastUpdated(s1))))

\* deleteRow after the confirmation
DeleteRow(s, index) ==
    LET ref == s.filteredVenues[index + 1]
        originalIndex == IndexOf(s.venues, ref)
        s1 == AddHistoryEntry(s, "Delete", s.heap[ref], {})
        s2 == IF originalIndex # 0
              THEN [s1 EXCEPT !.venues = RemoveAt(s1.venues, originalIndex)]
              ELSE s1
    IN  SaveToLocalStorage(UpdateTable(
            [s2 EXCEPT !.filteredVenues = RemoveAt(s2.filteredVenues, index + 1)]))

\* addNewRow
AddNewRow(s) ==
    LET newVenue == Put([h \in Range(s.headers) |-> Empty], kLastUpdated, ISO(s.now))
        ref == FreshRef(s, 1)
    IN  OpenModal([s EXCEPT !.heap = Append(s.heap, newVenue),
                            !.currentEditIndex = -1,
                            !.tempNewVenue = ref],
                  newVenue)

\* copyVenue
CopyVenue(s, source) ==
    LET venue == s.heap[source]
        named == IF Val(venue, kVenue) # Empty
                 THEN Put(venue, kVenue, venue[kVenue] \o <<SP, "(COPY)">>)
                 ELSE venue
        copiedVenue == Put(named, kLastUpdated, ISO(s.now))
        ref == FreshRef(s, 1)
    IN  OpenModal([s EXCEPT !.heap = Append(s.heap, copiedVenue),
                            !.currentEditIndex = -1,
                            !.tempNewVenue = ref],
                  copiedVenue)

\* editVenueFromHistory: this.venues.find(v => getVenueId(v) === venueId),
\* as the position of the venue found in this.venues, 0 for undefined
FindVenueById(s, venueId) ==
    IF \E i \in 1..Len(s.venues) : GetVenueId(s.heap[s.venues[i]]) = venueId
    THEN CHOOSE i \in 1..Len(s.venues) :
             /\ GetVenueId(s.heap[s.venues[i]]) = venueId
             /\ \A j \in 1..(i - 1) : GetVenueId(s.heap[s.venues[j]]) # venueId
    ELSE 0

(***************************************************************************)
(* The status pipeline.                                                    *)
(***************************************************************************)
CANVAS == <<"CANVAS">>
FOLLOWUP == <<"FOLLOW-UP">>
BOOKED == <<"BOOKED">>
BOOKAGAIN == <<"BOOK-AGAIN">>

\* the table shows the kanban button of a row (updateTable, lines 1021-1029)
HasBlankStatus(venue) == Trim(Val(venue, kStatus)) = Empty

\* addToKanban
AddToKanban(s, ref) ==
    LET venue == Put(Put(s.heap[ref], kStatus, CANVAS), kLastUpdated, ISO(s.now))
        changes == {[field |-> kStatus, oldValue |-> Empty, newValue |-> CANVAS]}
        s1 == AddHistoryEntry([s EXCEPT !.heap[ref] = venue], "Edit", venue, changes)
        originalIndex == IndexOf(s1.venues, ref)
        s2 == IF originalIndex # 0
              THEN [s1 EXCEPT !.heap = Append(s1.heap, venue),
                              !.venues[originalIndex] = FreshRef(s1, 1)]
              ELSE s1
    IN  SaveToLocalStorage(UpdateTable(ResortIfLastUpdated(s2)))

\* a pipeline that goes from CANVAS straight to BOOKED
NextStageSkipsFollowUp(currentStatus) ==
    IF Includes(currentStatus, CANVAS) THEN BOOKED
    ELSE IF Includes(currentStatus, FOLLOWUP) THEN BOOKED
    ELSE IF Includes(currentStatus, BOOKED) THEN BOOKAGAIN
    ELSE IF Includes(currentStatus, BOOKAGAIN) THEN CANVAS
    ELSE Empty

\* the newStatus of moveToNextStage; Empty when no stage token is found
NextStage(currentStatus) ==
    IF Includes(currentStatus, CANVAS) THEN FOLLOWUP
    ELSE IF Includes(currentStatus, FOLLOWUP) THEN BOOKED
    ELSE IF Includes(currentStatus, BOOKED) THEN BOOKAGAIN
    ELSE IF Includes(currentStatus, BOOKAGAIN) THEN CANVAS
    ELSE Empty

\* a moveToNextStage that leaves Last Updated as it was
MoveToNextStageNoStamp(s, ref) ==
    LET currentStatus == Val(s.heap[ref], kStatus)
        newStatus == NextStage(currentStatus)
        venue == Put(s.heap[ref], kStatus, newStatus)
        changes == {[field |-> kStatus, oldValue |-> currentStatus,
                     newValue |-> newStatus]}
        s1 == AddHistoryEntry([s EXCEPT !.heap[ref] = venue], "Edit", venue, changes)
    IN  IF newStatus = Empty THEN s
        ELSE SaveToLocalStorage(UpdateTable(ResortIfLastUpdated(s1)))

\* a moveToNextStage that stamps and records a venue without a stage
MoveToNextStageWithoutStage(s, ref) ==
    LET currentStatus == Val(s.heap[ref], kStatus)
        newStatus == NextStage(currentStatus)
        venue == Put(Put(s.heap[ref], kStatus, newStatus), kLastUpdated, ISO(s.now))
        changes == {[field |-> kStatus, oldValue |-> currentStatus,
                     newValue |-> newStatus]}
        s1 == AddHistoryEntry([s EXCEPT !.heap[ref] = venue], "Edit", venue, changes)
    IN  SaveToLocalStorage(UpdateTable(ResortIfLastUpdated(s1)))

\* moveToNextStage
MoveToNextStage(s, ref) ==
    LET currentStatus == Val(s.heap[ref], kStatus)
        newStatus == NextStage(currentStatus)
        venue == Put(Put(s.heap[ref], kStatus, newStatus), kLastUpdated, ISO(s.now))
        changes == {[field |-> kStatus, oldValue |-> currentStatus,
                     newValue |-> newStatus]}
        s1 == AddHistoryEntry([s EXCEPT !.heap[ref] = venue], "Edit", venue, changes)
    IN  IF newStatus = Empty THEN s
        ELSE SaveToLocalStorage(UpdateTable(ResortIfLastUpdated(s1)))

\* the venues that have a card on the kanban board (populateKanbanColumns)
HasKanbanCard(venue) == NextStage(Val(venue, kStatus)) # Empty

(***************************************************************************)
(* The remaining handlers.                                                 *)
(***************************************************************************)
\* sortByColumn
\* a sortByColumn that sorts this.venues as well
SortByColumnSortsStore(s, column) ==
    LET direction == IF s.sortColumn = column
                     THEN (IF s.sortDirection = "asc" THEN "desc" ELSE "asc")
                     ELSE "asc"
        mode == [kind |-> "column", column |-> column, direction |-> direction]
        s1 == [s EXCEPT !.sortColumn = column,
                        !.sortDirection = direction,
                        !.filteredVenues = SortRefs(s.filteredVenues, s.heap, mode),
                        !.venues = SortRefs(s.venues, s.heap, mode),
                        !.currentPage = 1]
    IN  SaveToLocalStorage(UpdateTable(s1))

SortByColumn(s, column) ==
    LET direction == IF s.sortColumn = column
                     THEN (IF s.sortDirection = "asc" THEN "desc" ELSE "asc")
                     ELSE "asc"
        s1 == [s EXCEPT !.sortColumn = column,
                        !.sortDirection = direction,
                        !.filteredVenues =
                            SortRefs(s.filteredVenues, s.heap,
                                     [kind |-> "column", column |-> column,
                                      direction |-> direction]),
                        !.currentPage = 1]
    IN  SaveToLocalStorage(UpdateTable(s1))

\* the direction sortByColumn sorts in
SortDirectionFor(s, column) ==
    IF s.sortColumn = column
    THEN (IF s.sortDirection = "asc" THEN "desc" ELSE "asc")
    ELSE "asc"

\* sortByColumn where the array sort leaves `sorted`, one of SortOutcomes
SortByColumnWith(s, column, sorted) ==
    LET s1 == [s EXCEPT !.sortColumn = column,
                        !.sortDirection = SortDirectionFor(s, column),
                        !.filteredVenues = sorted,
                        !.currentPage = 1]
    IN  SaveToLocalStorage(UpdateTable(s1))

\* the checkbox values of a filter modal (populateFilterOptions)
FilterOptions(s, filterType) ==
    LET key == CASE filterType = "status" -> kStatus
                 [] filterType = "region" -> kRegion
                 [] filterType = "type" -> kType
    IN  {Val(s.heap[s.venues[i]], key) : i \in 1..Len(s.venues)} \ {Empty}

\* applyFilterModal
ApplyFilterModal(s, filterType, selectedValues) ==
    LET s1 == CASE filterType = "status" -> [s EXCEPT !.statusFilters = selectedValues]
                [] filterType = "region" -> [s EXCEPT !.regionFilters = selectedValues]
                [] filterType = "type" -> [s EXCEPT !.typeFilters = selectedValues]
    IN  SaveToLocalStorage(ApplyFilters(s1))

\* clearAllFilters (the definition at line 2265, which replaces the one at
\* line 2255); its save is left to a timer
ClearAllFilters(s) ==
    UpdateTable([s EXCEPT !.statusFilters = {}, !.regionFilters = {},
                          !.typeFilters = {}, !.searchFilter = Empty,
                          !.filteredVenues = s.venues, !.currentPage = 1,
                          !.saveTimer = TRUE])

\* goToPage
GoToPage(s, page) ==
    IF page >= 1 /\ page <= s.totalPages /\ page # s.currentPage
    THEN UpdateTable([s EXCEPT !.currentPage = page])
    ELSE s

\* the change handler of #pageSizeSelect (updatePaginationControls)
ChangePageSize(s, size) ==
    SaveToLocalStorage(UpdateTable([s EXCEPT !.pageSize = size, !.currentPage = 1]))

\* clearAllData after the confirmation
ClearAllData(s) ==
    SaveToLocalStorage(UpdateTable(
        [s EXCEPT !.venues = <<>>, !.filteredVenues = <<>>, !.headers = <<>>,
                  !.sortColumn = NoColumn, !.sortDirection = "asc",
                  !.currentPage = 1, !.totalPages = 1,
                  !.statusFilters = {}, !.regionFilters = {}, !.typeFilters = {},
                  !.history = <<>>, !.hiddenColumns = {}, !.minVenueCount = 1]))

(***************************************************************************)
(* The state as one object, and references up to renaming.                 *)
(***************************************************************************)
This ==
    [heap |-> heap, venues |-> venues, filteredVenues |-> filteredVenues,
     headers |-> headers, currentEditIndex |-> currentEditIndex,
     tempNewVenue |-> tempNewVenue, sortColumn |-> sortColumn,
     sortDirection |-> sortDirection, currentPage |-> currentPage,
     pageSize |-> pageSize, totalPages |-> totalPages,
     statusFilters |-> statusFilters, regionFilters |-> regionFilters,
     typeFilters |-> typeFilters, history |-> history,
     searchFilter |-> searchFilter, searchTimer |-> searchTimer,
     saveTimer |-> saveTimer, modalOpen |-> modalOpen, form |-> form,
     storage |-> storage, now |-> now, hiddenColumns |-> hiddenColumns,
     minVenueCount |-> minVenueCount, mapCenter |-> mapCenter, mapZoom |-> mapZoom,
     historyPageSize |-> historyPageSize,
     historySearchFilter |-> historySearchFilter,
     historySearchInput |-> historySearchInput, historyTimer |-> historyTimer,
     historyCurrentPage |-> historyCurrentPage,
     historyTotalPages |-> historyTotalPages,
     historyTableBody |-> historyTableBody, quotaExceeded |-> quotaExceeded,
     geoData |-> geoData, located |-> located, timing |-> timing]

\* The objects that are still referenced, renumbered in the order this.venues,
\* then the objects only filteredVenues holds, then tempNewVenue: two states
\* that differ in the numbering of their references alone are one state.
Canon(s) ==
    LET InStoreNot(ref) == IndexOf(s.venues, ref) = 0
        tmp == IF s.tempNewVenue = NullRef THEN <<>> ELSE <<s.tempNewVenue>>
        order == s.venues \o SelectSeq(s.filteredVenues, InStoreNot) \o tmp
    IN  [s EXCEPT !.heap = [i \in 1..Len(order) |-> s.heap[order[i]]],
                  !.venues = [i \in 1..Len(s.venues) |-> IndexOf(order, s.venues[i])],
                  !.filteredVenues = [i \in 1..Len(s.filteredVenues) |->
                                         IndexOf(order, s.filteredVenues[i])],
                  !.tempNewVenue = IF s.tempNewVenue = NullRef THEN NullRef
                                   ELSE IndexOf(order, s.tempNewVenue)]

\* time goes on from one run of a handler to the next
Tick(s) == [s EXCEPT !.now = s.now + 1]

\* the handler's result becomes the next state
Commit(s0, op) ==
    LET s == Canon(Tick(s0))
    IN  /\ now < MaxTime
        /\ heap' = s.heap
        /\ venues' = s.venues
        /\ filteredVenues' = s.filteredVenues
        /\ headers' = s.headers
        /\ currentEditIndex' = s.currentEditIndex
        /\ tempNewVenue' = s.tempNewVenue
        /\ sortColumn' = s.sortColumn
        /\ sortDirection' = s.sortDirection
        /\ currentPage' = s.currentPage
        /\ pageSize' = s.pageSize
        /\ totalPages' = s.totalPages
        /\ statusFilters' = s.statusFilters
        /\ regionFilters' = s.regionFilters
        /\ typeFilters' = s.typeFilters
        /\ history' = s.history
        /\ searchFilter' = s.searchFilter
        /\ searchTimer' = s.searchTimer
        /\ saveTimer' = s.saveTimer
        /\ modalOpen' = s.modalOpen
        /\ form' = s.form
        /\ storage' = s.storage
        /\ now' = s.now
        /\ hiddenColumns' = s.hiddenColumns
        /\ minVenueCount' = s.minVenueCount
        /\ mapCenter' = s.mapCenter
        /\ mapZoom' = s.mapZoom
        /\ historyPageSize' = s.historyPageSize
        /\ historySearchFilter' = s.historySearchFilter
        /\ historySearchInput' = s.historySearchInput
        /\ historyTimer' = s.historyTimer
        /\ historyCurrentPage' = s.historyCurrentPage
        /\ historyTotalPages' = s.historyTotalPages
        /\ historyTableBody' = s.historyTableBody
        /\ quotaExceeded' = s.quotaExceeded
        /\ geoData' = s.geoData
        /\ located' = s.located
        /\ timing' = s.timing
        /\ lastOp' = op

\* what lastOp records of a handler's run
Op(name, arg, outcome) ==
    [op |-> name, arg |-> arg, outcome |-> outcome,
     imported |-> 0, duplicates |-> 0, pristine |-> FALSE]

(***************************************************************************)
(* The inputs the user gives.                                              *)
(***************************************************************************)
Line(cells) == Join(cells, TAB)
Text(lines) == Join(lines, NL)

HeaderLine == Line(<<kVenue, kCity, kState, kStatus>>)
HeaderLineSwapped == Line(<<kVenue, kState, kCity, kStatus>>)

\* the scenario of the specification: two identical rows
TextTwice ==
    Text(<<HeaderLine,
           Line(<<<<"A">>, <<"Paris">>, <<"TX">>, Empty>>),
           Line(<<<<"A">>, <<"Paris">>, <<"TX">>, Empty>>)>>)

\* the same venue in another case, with a space and a status, and a second venue
TextVariant ==
    Text(<<HeaderLine,
           Line(<<<<"a", SP>>, <<"paris">>, <<"tx">>, CANVAS>>),
           Line(<<<<"B">>, <<"Paris">>, <<"TX">>, BOOKED>>)>>)

\* the columns City and State in the other order
TextSwapped ==
    Text(<<HeaderLineSwapped,
           Line(<<<<"B">>, <<"TX">>, <<"Paris">>, BOOKED>>)>>)

ImportTexts == {TextTwice, TextVariant, TextSwapped}

\* what the user types into a text input of the edit modal
EditValues == {Empty, <<"B">>}

\* the inputs of the edit modal the user changes
EditFields == {kVenue, kStatus}

\* what the user types into #searchFilter
SearchTexts == {Empty, <<"b">>}

\* the columns whose header the user clicks
SortColumns == {kVenue, kLastUpdated}

\* the options of #pageSizeSelect
PageSizeOptions == {5, 10, 25, 50, 100, 200}

\* the boxes the user ticks in a filter modal
MaxSelected == 1
FilterSelections(s, filterType) ==
    {sel \in SUBSET FilterOptions(s, filterType) : Cardinality(sel) <= MaxSelected}

\* the values an input of the modal can be given: an option of a <select>,
\* a typed text otherwise
InputChoices(s, field) ==
    IF field \in SelectFields THEN SelectOptions(s, field) ELSE EditValues

\* the forms at the click on Save: at most one input changed by the user
SubmittedForms(s) ==
    {s.form} \cup
    UNION {{[s.form EXCEPT ![field] = value] : value \in InputChoices(s, field)} :
              field \in (DOMAIN s.form) \cap EditFields}

\* the rows the table shows: the indices (0-based) of the current page
RowsShown(s) ==
    {i \in 0..(Len(s.filteredVenues) - 1) :
        /\ i >= (s.currentPage - 1) * s.pageSize
        /\ i < (s.currentPage - 1) * s.pageSize + s.pageSize}

(***************************************************************************)
(* The state machine.                                                      *)
(***************************************************************************)
\* ---------------------------------------------------------------------------
\* The index of coordinates (geo.js) and geocodeLocation
\* ---------------------------------------------------------------------------

\* the lines of geo.js after its header line: country, state, name, lat, lng
GeoRows ==
    <<[country |-> <<"US">>, state |-> <<"Texas">>, name |-> <<"Paris">>,
       lat |-> 1, lng |-> -1],
      [country |-> <<"US">>, state |-> <<"TX">>, name |-> <<"Paris">>,
       lat |-> 2, lng |-> -2],
      [country |-> <<"FR">>, state |-> Empty, name |-> <<"Paris">>,
       lat |-> 3, lng |-> -3],
      [country |-> <<"US">>, state |-> <<"Missouri">>,
       name |-> <<"Saint", SP, "Louis">>, lat |-> 4, lng |-> -4],
      [country |-> <<"US">>, state |-> <<"Missouri">>,
       name |-> <<"St.", SP, "Louis">>, lat |-> 5, lng |-> -5],
      [country |-> <<"FR">>, state |-> Empty, name |-> <<"Lyon">>,
       lat |-> 6, lng |-> -6]>>

\* the file the application is shipped with
GeoFile == <<GeoRows[1], GeoRows[4]>>

\* what a lookup in the index gives: a pair of coordinates, undefined, or a
\* property that every object inherits from Object.prototype
Coordinates(lat, lng) == [kind |-> "coordinates", lat |-> lat, lng |-> lng]
Undefined == [kind |-> "undefined", lat |-> 0, lng |-> 0]
Inherited == [kind |-> "Object.prototype", lat |-> 0, lng |-> 0]
Null == [kind |-> "null", lat |-> 0, lng |-> 0]

\* no call of geocodeLocation yet
NotLocated == [location |-> Empty, coordinates |-> Null]

\* loadGeoData: the key "name, state" for a US line with a state, and the
\* key name for every line; a later line replaces the value of a key
RECURSIVE LoadGeoData(_)
LoadGeoData(rows) ==
    IF rows = <<>> THEN <<>>
    ELSE LET row == rows[Len(rows)]
             before == LoadGeoData(SubSeq(rows, 1, Len(rows) - 1))
             value == Coordinates(row.lat, row.lng)
             WithKey(index, key) ==
                 IF \E i \in 1..Len(index) : index[i].key = key
                 THEN [i \in 1..Len(index) |->
                          IF index[i].key = key
                          THEN [key |-> key, value |-> value] ELSE index[i]]
                 ELSE Append(index, [key |-> key, value |-> value])
             keyed == IF row.country = <<"US">> /\ row.state # Empty
                      THEN WithKey(before, row.name \o <<",", SP>> \o row.state)
                      ELSE before
         IN  WithKey(keyed, row.name)

\* Object.keys(this.geoData)
GeoKeys(index) == {index[i].key : i \in 1..Len(index)}

\* the names that this.geoData = {} inherits from Object.prototype
ObjectPrototypeKeys ==
    {<<"constructor">>, <<"toString">>, <<"valueOf">>, <<"hasOwnProperty">>}

\* an index that has no properties but its own
OwnProperty(index, key) ==
    IF key \in GeoKeys(index)
    THEN (CHOOSE e \in Range(index) : e.key = key).value
    ELSE Undefined

\* this.geoData[key]: the property of that name, the object's own or the
\* one it inherits
Property(index, key) ==
    IF key \in GeoKeys(index)
    THEN (CHOOSE e \in Range(index) : e.key = key).value
    ELSE IF key \in ObjectPrototypeKeys THEN Inherited
    ELSE Undefined

\* String.prototype.startsWith
StartsWith(str, prefix) ==
    Len(prefix) <= Len(str) /\ SubSeq(str, 1, Len(prefix)) = prefix

\* String.prototype.replace with a string pattern: the first occurrence
RECURSIVE ReplaceFirst(_, _, _)
ReplaceFirst(str, pattern, replacement) ==
    IF Len(str) < Len(pattern) \/ str = <<>> THEN str
    ELSE IF StartsWith(str, pattern)
         THEN replacement \o SubSeq(str, Len(pattern) + 1, Len(str))
         ELSE <<Head(str)>> \o ReplaceFirst(Tail(str), pattern, replacement)

\* the entries of stateAbbreviations that the locations use, in its order
StateAbbreviations ==
    <<[abbr |-> <<"MO">>, fullName |-> <<"Missouri">>],
      [abbr |-> <<"TX">>, fullName |-> <<"Texas">>]>>

\* expandStateAbbreviations: the first abbreviation of the table found after
\* ", " is replaced
RECURSIVE ExpandStateFrom(_, _)
ExpandStateFrom(location, k) ==
    IF k > Len(StateAbbreviations) THEN location
    ELSE LET pattern == <<",", SP>> \o StateAbbreviations[k].abbr
         IN  IF Includes(location, pattern)
             THEN ReplaceFirst(location, pattern,
                               <<",", SP>> \o StateAbbreviations[k].fullName)
             ELSE ExpandStateFrom(location, k + 1)

ExpandStateAbbreviations(location) == ExpandStateFrom(location, 1)

\* the entries of cityAbbreviations, in its order
CityAbbreviations ==
    <<[abbr |-> <<"St.">>, fullName |-> <<"Saint">>],
      [abbr |-> <<"St", SP>>, fullName |-> <<"Saint", SP>>],
      [abbr |-> <<"St", ",">>, fullName |-> <<"Saint", ",">>],
      [abbr |-> <<"St.", SP>>, fullName |-> <<"Saint", SP>>],
      [abbr |-> <<"St.", SP, ",">>, fullName |-> <<"Saint", ",", SP>>]>>

\* the symbols of one character, which the "." of a pattern stands for
OneCharacter == {SP, ","}

\* how many symbols new RegExp(abbr) matches at the head of str, 0 for no
\* match: "St." as a pattern is St and any one character
RegExpMatch(str, abbr) ==
    IF str = <<>> THEN 0
    ELSE IF Head(abbr) = "St."
    THEN IF Head(str) = "St." /\ StartsWith(Tail(str), Tail(abbr))
         THEN Len(abbr)
         ELSE IF Head(str) = "St" /\ Len(str) >= 2 /\ str[2] \in OneCharacter
                 /\ StartsWith(SubSeq(str, 3, Len(str)), Tail(abbr))
         THEN Len(abbr) + 1
         ELSE 0
    ELSE IF StartsWith(str, abbr) THEN Len(abbr) ELSE 0

\* String.prototype.replace with new RegExp(abbr, 'g'): every occurrence
RECURSIVE ReplaceAll(_, _, _)
ReplaceAll(str, abbr, fullName) ==
    IF str = <<>> THEN str
    ELSE LET n == RegExpMatch(str, abbr)
         IN  IF n > 0
             THEN fullName \o ReplaceAll(SubSeq(str, n + 1, Len(str)), abbr, fullName)
             ELSE <<Head(str)>> \o ReplaceAll(Tail(str), abbr, fullName)

\* expandCityAbbreviations
RECURSIVE ExpandCityFrom(_, _)
ExpandCityFrom(expanded, k) ==
    IF k > Len(CityAbbreviations) THEN expanded
    ELSE ExpandCityFrom(
             IF Includes(expanded, CityAbbreviations[k].abbr)
             THEN ReplaceAll(expanded, CityAbbreviations[k].abbr,
                             CityAbbreviations[k].fullName)
             ELSE expanded,
             k + 1)

ExpandCityAbbreviations(location) == ExpandCityFrom(location, 1)

\* a value is truthy
Truthy(value) == value.kind \notin {"undefined", "null"}

\* geocodeLocation
GeocodeLocation(index, location) ==
    LET expandedLocation == ExpandStateAbbreviations(location)
        cityExpandedLocation == ExpandCityAbbreviations(expandedLocation)
        cityOnly == Trim(Split(cityExpandedLocation, ",")[1])
        cityInMultipleStates ==
            \E key \in GeoKeys(index) :
                key # cityOnly /\ StartsWith(key, cityOnly \o <<",">>)
    IN  IF location = Empty THEN Null
        ELSE IF Truthy(Property(index, cityExpandedLocation))
        THEN Property(index, cityExpandedLocation)
        ELSE IF Truthy(Property(index, expandedLocation))
        THEN Property(index, expandedLocation)
        ELSE IF Truthy(Property(index, location))
        THEN Property(index, location)
        ELSE IF cityOnly # Empty /\ Truthy(Property(index, cityOnly))
                /\ ~cityInMultipleStates
        THEN Property(index, cityOnly)
        ELSE Null

DefaultPageSize == 50
DefaultMinVenueCount == 1
DefaultMapZoom == 7
DefaultHistoryPageSize == 5
DefaultMapCenter == "New York State"

\* no timer is armed and no input event has happened
NoTiming ==
    [searchLeft |-> 0, searchSince |-> 0, searchEvents |-> 0,
     historyLeft |-> 0, historySince |-> 0, historyEvents |-> 0]

\* the fields the constructor sets before it calls loadFromLocalStorage
Defaults(stored, start) ==
    [heap |-> <<>>, venues |-> <<>>, filteredVenues |-> <<>>, headers |-> <<>>,
     currentEditIndex |-> -1, tempNewVenue |-> NullRef, sortColumn |-> NoColumn,
     sortDirection |-> "asc", currentPage |-> 1, pageSize |-> DefaultPageSize,
     totalPages |-> 1, statusFilters |-> {}, regionFilters |-> {},
     typeFilters |-> {}, history |-> <<>>, searchFilter |-> Empty,
     searchTimer |-> FALSE, saveTimer |-> FALSE, modalOpen |-> FALSE,
     form |-> <<>>, storage |-> stored, now |-> start, hiddenColumns |-> {},
     minVenueCount |-> DefaultMinVenueCount, mapCenter |-> DefaultMapCenter,
     mapZoom |-> DefaultMapZoom, historyPageSize |-> DefaultHistoryPageSize,
     historySearchFilter |-> Empty, historySearchInput |-> Empty,
     historyTimer |-> FALSE, historyCurrentPage |-> 1, historyTotalPages |-> 1,
     historyTableBody |-> <<>>, quotaExceeded |-> FALSE,
     geoData |-> LoadGeoData(GeoFile),
     located |-> NotLocated, timing |-> NoTiming]

\* value || fallback for a number
OrNumber(value, fallback) == IF value = 0 THEN fallback ELSE value

\* value || fallback for a string
OrString(value, fallback) == IF value = Empty THEN fallback ELSE value

\* loadFromLocalStorage.  JSON.parse throws on a text that is no JSON, and
\* new Set(data.hiddenColumns) throws on a value that is not iterable, after
\* venues and headers are assigned; the catch ends the load there.
LoadFromLocalStorage(s) ==
    LET data == s.storage[1]
        s1 == [s EXCEPT !.heap = data.venues,
                        !.venues = [i \in 1..Len(data.venues) |-> i],
                        !.headers = data.headers]
        s2 == [s1 EXCEPT !.hiddenColumns = data.hiddenColumns,
                         !.sortColumn = OrString(data.sortColumn, NoColumn),
                         !.sortDirection = data.sortDirection,
                         !.pageSize = OrNumber(data.pageSize, DefaultPageSize),
                         !.statusFilters = data.statusFilters,
                         !.regionFilters = data.regionFilters,
                         !.typeFilters = data.typeFilters,
                         !.minVenueCount =
                             OrNumber(data.minVenueCount, DefaultMinVenueCount),
                         !.mapCenter = data.mapCenter,
                         !.mapZoom = OrNumber(data.mapZoom, DefaultMapZoom),
                         !.history = data.history,
                         !.historyPageSize =
                             OrNumber(data.historyPageSize, DefaultHistoryPageSize),
                         !.historySearchFilter = data.historySearchFilter,
                         !.historySearchInput = data.historySearchFilter]
    IN  IF s.storage = <<>> THEN s
        ELSE IF data.shape = "not JSON" THEN s
        ELSE IF data.shape = "hiddenColumns not iterable" THEN s1
        ELSE IF s2.venues # <<>> THEN UpdateHistoryTable(ApplyFilters(s2))
        ELSE UpdateHistoryTable(s2)

\* what saveToLocalStorage leaves of a store that was cleared
StoredSettings(size) == Snapshot([Defaults(<<>>, 0) EXCEPT !.pageSize = size])

\* the constructor: stored is the content of localStorage, <<>> when there
\* is none, and start the clock value
Constructor(stored, start) == LoadFromLocalStorage(Defaults(stored, start))

\* the application starts in state s
InitFrom(s) ==
        /\ heap = s.heap
        /\ venues = s.venues
        /\ filteredVenues = s.filteredVenues
        /\ headers = s.headers
        /\ currentEditIndex = s.currentEditIndex
        /\ tempNewVenue = s.tempNewVenue
        /\ sortColumn = s.sortColumn
        /\ sortDirection = s.sortDirection
        /\ currentPage = s.currentPage
        /\ pageSize = s.pageSize
        /\ totalPages = s.totalPages
        /\ statusFilters = s.statusFilters
        /\ regionFilters = s.regionFilters
        /\ typeFilters = s.typeFilters
        /\ history = s.history
        /\ searchFilter = s.searchFilter
        /\ searchTimer = s.searchTimer
        /\ saveTimer = s.saveTimer
        /\ modalOpen = s.modalOpen
        /\ form = s.form
        /\ storage = s.storage
        /\ now = s.now
        /\ hiddenColumns = s.hiddenColumns
        /\ minVenueCount = s.minVenueCount
        /\ mapCenter = s.mapCenter
        /\ mapZoom = s.mapZoom
        /\ historyPageSize = s.historyPageSize
        /\ historySearchFilter = s.historySearchFilter
        /\ historySearchInput = s.historySearchInput
        /\ historyTimer = s.historyTimer
        /\ historyCurrentPage = s.historyCurrentPage
        /\ historyTotalPages = s.historyTotalPages
        /\ historyTableBody = s.historyTableBody
        /\ quotaExceeded = s.quotaExceeded
        /\ geoData = s.geoData
        /\ located = s.located
        /\ timing = s.timing
        /\ lastOp = Op("constructor", <<>>, "done")

InitWith(stored, start) == InitFrom(Constructor(stored, start))

\* ---------------------------------------------------------------------------
\* The debounced inputs (times in milliseconds)
\* ---------------------------------------------------------------------------

DebounceWait == 300

\* a debounce that leaves a pending timer alone
DebounceKeepsTimer(pending, left) == IF pending THEN left ELSE DebounceWait

\* debounce: clearTimeout(timeout); timeout = setTimeout(later, wait).  The
\* time left on the timer of the closure after a call
Debounce(pending, left) == DebounceWait

\* an input event of #searchFilter: the input has the text, debouncedSearch
\* is called
SearchInput(s, text) ==
    [s EXCEPT !.searchFilter = text,
              !.searchTimer = TRUE,
              !.timing.searchLeft = Debounce(s.searchTimer, s.timing.searchLeft),
              !.timing.searchSince = 0,
              !.timing.searchEvents =
                  IF s.searchTimer THEN s.timing.searchEvents + 1 ELSE 1]

\* an input event of #historySearchFilter: debouncedHistorySearch is called
HistorySearchInput(s, text) ==
    [s EXCEPT !.historySearchInput = text,
              !.historyTimer = TRUE,
              !.timing.historyLeft = Debounce(s.historyTimer, s.timing.historyLeft),
              !.timing.historySince = 0,
              !.timing.historyEvents =
                  IF s.historyTimer THEN s.timing.historyEvents + 1 ELSE 1]

\* no pending timer is due before d has gone by
CanElapse(s, d) ==
    /\ s.searchTimer => d <= s.timing.searchLeft
    /\ s.historyTimer => d <= s.timing.historyLeft

\* d goes by
Elapse(s, d) ==
    [s EXCEPT !.timing.searchLeft = IF s.searchTimer THEN @ - d ELSE @,
              !.timing.searchSince = IF s.searchTimer THEN @ + d ELSE @,
              !.timing.historyLeft = IF s.historyTimer THEN @ - d ELSE @,
              !.timing.historySince = IF s.historyTimer THEN @ + d ELSE @]

\* the timer of debouncedSearch runs `later` when its time is up: applyFilters
SearchTimerFires(s) ==
    LET due == Elapse(s, s.timing.searchLeft)
    IN  ApplyFilters([due EXCEPT !.searchTimer = FALSE,
                                 !.timing.searchLeft = 0,
                                 !.timing.searchSince = 0])

\* applyHistoryFilters
ApplyHistoryFilters(s) ==
    UpdateHistoryTable(
        [s EXCEPT !.historySearchFilter = ToLowerCase(s.historySearchInput),
                  !.historyCurrentPage = 1])

\* the timer of debouncedHistorySearch runs `later`: applyHistoryFilters
HistoryTimerFires(s) ==
    LET due == Elapse(s, s.timing.historyLeft)
    IN  ApplyHistoryFilters([due EXCEPT !.historyTimer = FALSE,
                                        !.timing.historyLeft = 0,
                                        !.timing.historySince = 0])

\* ---------------------------------------------------------------------------
\* Confirmations, the history panel, the map and the page reload
\* ---------------------------------------------------------------------------

\* a handler that goes on whatever the answer
IfConfirmedIgnored(confirmed, s, done) == done

\* if (!confirm(...)) return; the state `done` that the rest of the handler
\* makes of s when the user confirms, s when they deny
IfConfirmed(confirmed, s, done) == IF confirmed THEN done ELSE s

\* a clearHistory that does not save
ClearHistoryUnsaved(s) ==
    UpdateHistoryTable([s EXCEPT !.history = <<>>, !.historyCurrentPage = 1,
                                 !.historyTotalPages = 1])

\* applyColumnToggle: the headers whose box is not ticked are hidden
ApplyColumnToggle(s, hidden) ==
    SaveToLocalStorage(UpdateTable([s EXCEPT !.hiddenColumns = hidden]))

\* resetTableLayout, once confirmed
ResetTableLayout(s) ==
    SaveToLocalStorage(UpdateTable(
        [s EXCEPT !.hiddenColumns = {}, !.sortColumn = NoColumn,
                  !.sortDirection = "asc"]))

\* clearHistory, once confirmed
ClearHistory(s) ==
    SaveToLocalStorage(UpdateHistoryTable(
        [s EXCEPT !.history = <<>>, !.historyCurrentPage = 1,
                  !.historyTotalPages = 1]))

\* the moveend listener of the map
MapMoved(s, center, zoom) ==
    SaveToLocalStorage([s EXCEPT !.mapCenter = center, !.mapZoom = zoom])

\* the first start of the application
Init == InitWith(<<>>, 0)

\* the user can reach the page behind the edit modal only while it is closed
Idle == ~modalOpen

ImportDataOf(texts, maxVenues) ==
    \E rawText \in texts :
        LET p == ImportParse(headers, StoreRecords(This), rawText, now)
        IN  /\ Idle
            /\ Len(venues) + Len(p.newVenues) <= maxVenues
            /\ Commit(IF p.outcome = "Imported"
                      THEN ImportData(This, rawText) ELSE This,
                      [Op("importData", rawText, p.outcome) EXCEPT
                          !.imported = Len(p.newVenues),
                          !.duplicates = p.duplicateCount])

DoImportData == ImportDataOf(ImportTexts, MaxVenues)

DoSortByColumn ==
    \E column \in Range(headers) \cap SortColumns :
        /\ Idle
        /\ Commit(SortByColumn(This, column), Op("sortByColumn", <<>>, "done"))

DoApplyFilterModal ==
    \E filterType \in {"status", "region", "type"} :
        \E selectedValues \in FilterSelections(This, filterType) :
            /\ Idle
            /\ venues # <<>>
            /\ Commit(ApplyFilterModal(This, filterType, selectedValues),
                      Op("applyFilterModal", <<>>, "done"))

DoClearAllFilters ==
    /\ Idle
    /\ Commit(ClearAllFilters(This), Op("clearAllFilters", <<>>, "done"))

\* the timer of clearAllFilters fires
DoSaveTimer ==
    /\ saveTimer
    /\ Commit(SaveToLocalStorage([This EXCEPT !.saveTimer = FALSE]),
              Op("saveTimer", <<>>, "done"))

\* an input event of #searchFilter: the debounced search is (re)armed
SearchInputOf(texts) ==
    \E text \in texts :
        /\ Idle
        /\ text # searchFilter
        /\ Commit(SearchInput(This, text), Op("searchInput", <<>>, "done"))

DoSearchInput == SearchInputOf(SearchTexts)

\* the rest of the wait goes by and the timer of the debounced search
\* fires: applyFilters
DoSearchTimer ==
    /\ searchTimer
    /\ CanElapse(This, timing.searchLeft)
    /\ Commit(SearchTimerFires(This), Op("applyFilters", <<>>, "done"))

DoGoToPage ==
    \E page \in 0..(totalPages + 1) :
        /\ Idle
        /\ totalPages > 1
        /\ Commit(GoToPage(This, page), Op("goToPage", <<>>, "done"))

\* the change event of #pageSizeSelect: another option is selected
DoChangePageSize ==
    \E size \in PageSizeOptions :
        /\ Idle
        /\ totalPages > 1
        /\ size # pageSize
        /\ Commit(ChangePageSize(This, size), Op("changePageSize", <<>>, "done"))

DoEditRow ==
    \E index \in RowsShown(This) :
        /\ Idle
        /\ Commit(EditRow(This, index), Op("editRow", <<>>, "done"))

AddNewRowOf(maxVenues) ==
    /\ Idle
    /\ Len(venues) < maxVenues
    /\ Commit(AddNewRow(This), Op("addNewRow", <<>>, "done"))

DoAddNewRow == AddNewRowOf(MaxVenues)

\* the copy button of a table row or of a kanban card
DoCopyVenue ==
    \E source \in {filteredVenues[i + 1] : i \in RowsShown(This)} \cup
                  {ref \in Range(venues) : HasKanbanCard(heap[ref])} :
        /\ Idle
        /\ Len(venues) < MaxVenues
        /\ Commit(CopyVenue(This, source), Op("copyVenue", <<>>, "done"))

DoSaveEdit ==
    \E inputs \in SubmittedForms(This) :
        /\ modalOpen
        /\ Commit(IF SaveEditThrows(This) THEN This ELSE SaveEdit(This, inputs),
                  [Op("saveEdit", inputs,
                      IF SaveEditThrows(This) THEN "TypeError"
                      ELSE IF currentEditIndex = -1 THEN "Add" ELSE "Edit")
                   EXCEPT !.pristine = (inputs = form)])

DoCloseModal ==
    /\ modalOpen
    /\ Commit(CloseModal(This), Op("closeModal", <<>>, "done"))

DoDeleteRow ==
    \E index \in RowsShown(This), confirmed \in BOOLEAN :
        /\ Idle
        /\ Commit(IfConfirmed(confirmed, This, DeleteRow(This, index)),
                  Op("deleteRow", index, IF confirmed THEN "confirmed" ELSE "denied"))

\* the kanban button of a table row, which rows with a blank Status have
DoAddToKanban ==
    \E index \in RowsShown(This) :
        /\ Idle
        /\ HasBlankStatus(heap[filteredVenues[index + 1]])
        /\ Commit(AddToKanban(This, filteredVenues[index + 1]),
                  Op("addToKanban", index, "done"))

\* the move button of a kanban card
DoMoveToNextStage ==
    \E i \in 1..Len(venues) :
        /\ Idle
        /\ HasKanbanCard(heap[venues[i]])
        /\ Commit(MoveToNextStage(This, venues[i]),
                  Op("moveToNextStage", i, "done"))

DoClearAllData ==
    \E confirmed \in BOOLEAN :
        /\ Idle
        /\ Commit(IfConfirmed(confirmed, This, ClearAllData(This)),
                  Op("clearAllData", <<>>, IF confirmed THEN "confirmed" ELSE "denied"))

Next ==
    \/ DoImportData
    \/ DoSortByColumn
    \/ DoApplyFilterModal
    \/ DoClearAllFilters
    \/ DoSaveTimer
    \/ DoSearchInput
    \/ DoSearchTimer
    \/ DoEditRow
    \/ DoAddNewRow
    \/ DoCopyVenue
    \/ DoSaveEdit
    \/ DoCloseModal
    \/ DoDeleteRow
    \/ DoAddToKanban
    \/ DoMoveToNextStage
    \/ DoClearAllData

Spec == Init /\ [][Next]_vars

(***************************************************************************)
(* The table on more than one page: the application starts with the        *)
(* smallest page size stored, and a file of more rows than a page holds is *)
(* imported.                                                               *)
(***************************************************************************)
MinPageSize == 5

\* one row more than the smallest page holds
TextBulk ==
    Text(<<HeaderLine,
           Line(<<<<"1">>, <<"Paris">>, <<"TX">>, Empty>>),
           Line(<<<<"2">>, <<"Paris">>, <<"TX">>, Empty>>),
           Line(<<<<"3">>, <<"Paris">>, <<"TX">>, Empty>>),
           Line(<<<<"4">>, <<"Paris">>, <<"TX">>, Empty>>),
           Line(<<<<"5">>, <<"Paris">>, <<"TX">>, Empty>>),
           Line(<<<<"6">>, <<"Paris">>, <<"TX">>, Empty>>)>>)

MaxVenuesPaging == 6

\* the clock value at the start of the application
StartPaging == 1

InitPaging == InitWith(<<StoredSettings(MinPageSize)>>, StartPaging)

DoImportBulk == ImportDataOf({TextBulk}, MaxVenuesPaging)

DoAddNewRowPaging == AddNewRowOf(MaxVenuesPaging)

\* the columns whose box the user unticks in the column modal
ToggleColumns == {kCity}

DoApplyColumnToggle ==
    \E hidden \in SUBSET (Range(headers) \cap ToggleColumns) :
        /\ Idle
        /\ headers # <<>>
        /\ Commit(ApplyColumnToggle(This, hidden),
                  Op("applyColumnToggle", <<>>, "done"))

NextPaging ==
    \/ DoImportBulk
    \/ DoApplyFilterModal
    \/ DoApplyColumnToggle
    \/ DoGoToPage
    \/ DoChangePageSize
    \/ DoSortByColumn
    \/ DoSearchInput
    \/ DoSearchTimer
    \/ DoAddNewRowPaging
    \/ DoSaveEdit
    \/ DoCloseModal
    \/ DoDeleteRow
    \/ DoClearAllData

SpecPaging == InitPaging /\ [][NextPaging]_vars

(***************************************************************************)
(* The properties.                                                         *)
(***************************************************************************)
\* the trimmed, lowercased Venue, City and State of a record
Key(venue) ==
    <<ToLowerCase(Trim(Val(venue, kVenue))), ToLowerCase(Trim(Val(venue, kCity))),
      ToLowerCase(Trim(Val(venue, kState)))>>

\* C1: importData skips a row that repeats a row accepted earlier in the same
\* import: of the two identical rows of TextTwice, imported into an empty
\* store, one is imported and one is counted as a duplicate, and after any
\* import no two of the records it appended have the same key.
C1_ImportSkipsRepeatedRow ==
    [][(lastOp'.op = "importData" /\ lastOp'.outcome = "Imported") =>
          /\ (venues = <<>> /\ lastOp'.arg = TextTwice) =>
                 (lastOp'.imported = 1 /\ lastOp'.duplicates = 1 /\ Len(venues') = 1)
          /\ \A i, j \in (Len(venues) + 1)..Len(venues') :
                 i < j => Key(heap'[venues'[i]]) # Key(heap'[venues'[j]])]_vars

\* C2: a confirmed deleteRow of a row of the view takes that venue out of the
\* store: the store is the store before without one record, the record of the
\* row.
C2_DeleteRemovesFromStore ==
    [][(lastOp'.op = "deleteRow" /\ lastOp'.outcome = "confirmed") =>
          \E k \in 1..Len(venues) :
              /\ heap[venues[k]] = heap[filteredVenues[lastOp'.arg + 1]]
              /\ StoreRecords(This)' = RemoveAt(StoreRecords(This), k)]_vars

\* C3: after saveEdit of an existing venue in which the user changed an
\* input, a record of the store holds the submitted values.
C3_EditReachesStore ==
    [][(lastOp'.op = "saveEdit" /\ lastOp'.outcome = "Edit" /\ ~lastOp'.pristine) =>
          \E k \in 1..Len(venues') :
              \A field \in (DOMAIN lastOp'.arg) \ {kUndefined} :
                  Val(heap'[venues'[k]], field) = lastOp'.arg[field]]_vars

\* the Last Updated stamps of a sequence of records
Stamps(records) == [i \in 1..Len(records) |-> Val(records[i], kLastUpdated)]

\* C4: saveEdit of an existing venue with no input changed appends no history
\* entry and stamps no record.
C4_PristineSaveChangesNothing ==
    [][(lastOp'.op = "saveEdit" /\ lastOp'.outcome = "Edit" /\ lastOp'.pristine) =>
          /\ history' = history
          /\ Stamps(StoreRecords(This))' = Stamps(StoreRecords(This))
          /\ ISO(now) \notin Range(Stamps(ViewRecords(This))')]_vars

\* the handlers that record in the history, with the action they record
Recorded(op) ==
    CASE op.op = "saveEdit" /\ op.outcome = "Add" -> "Add"
      [] op.op = "saveEdit" /\ op.outcome = "Edit" /\ ~op.pristine -> "Edit"
      [] op.op = "moveToNextStage" -> "Edit"
      [] op.op = "addToKanban" -> "Edit"
      [] op.op = "deleteRow" /\ op.outcome = "confirmed" -> "Delete"
      [] OTHER -> "none"

\* C5: each Add, each Edit that changes a field (by saveEdit, moveToNextStage
\* or addToKanban) and each confirmed Delete puts exactly one entry, of that
\* action, in front of the history.
C5_OneEntryPerMutation ==
    [][Recorded(lastOp') # "none" =>
          /\ Len(history') = Len(history) + 1
          /\ history'[1].action = Recorded(lastOp')
          /\ Tail(history') = history]_vars

C5_Witness ==
    /\ lastOp.op = "saveEdit" /\ lastOp.outcome = "Edit" /\ ~lastOp.pristine
    /\ Len(history) >= 2
    /\ history[1].action = "Edit"
    /\ history[2].action = "Edit"

\* C6: filteredVenues holds exactly the records of the store that pass the
\* Status, Region and Type filters and the search text, once the debounced
\* search has run.
C6_ViewIsFilteredStore ==
    ~searchTimer =>
        Range(ViewRecords(This)) =
            {r \in Range(StoreRecords(This)) :
                PassesFilters(r, statusFilters, regionFilters, typeFilters,
                              ToLowerCase(searchFilter))}

\* the candidates isDuplicateVenue is asked about
Candidate(v, c, s, st) ==
    (kVenue :> v) @@ (kCity :> c) @@ (kState :> s) @@ (kStatus :> st)

Candidates ==
    {Candidate(v, c, s, st) :
        v \in {Empty, <<SP>>, <<"A", SP>>, <<"B">>},
        c \in {Empty, <<"paris">>},
        s \in {<<SP, "TX">>},
        st \in {Empty, BOOKAGAIN}}

\* C7: isDuplicateVenue is true of a candidate exactly when its Venue, City
\* and State are all non-empty once trimmed and a record of the store has the
\* same three values, trimmed and lowercased, whatever its other fields.
C7_DuplicateIffSameKey ==
    \A c \in Candidates :
        IsDuplicateVenue(c, StoreRecords(This)) <=>
            /\ \A n \in 1..3 : Key(c)[n] # Empty
            /\ \E i \in 1..Len(venues) : Key(heap[venues[i]]) = Key(c)

C7_Witness ==
    /\ lastOp.op = "importData"
    /\ lastOp.arg = TextVariant
    /\ lastOp.imported = 1 /\ lastOp.duplicates = 1
    /\ \E c \in Candidates :
          /\ IsDuplicateVenue(c, StoreRecords(This))
          /\ c[kVenue] = <<"A", SP>> /\ c[kStatus] = BOOKAGAIN

\* the header line of a text, split at the tabs
ImportHeaders(rawText) == Split(Split(Trim(rawText), NL)[1], TAB)

\* C8: with a header schema set, an import whose headers, Last Updated put
\* aside, are not the schema's position by position changes neither the
\* venues nor the headers nor the view nor the history.
C8_SchemaMismatchAborts ==
    [][(/\ lastOp'.op = "importData"
        /\ headers # <<>>
        /\ SelectSeq(ImportHeaders(lastOp'.arg), NotLastUpdated) #
               SelectSeq(headers, NotLastUpdated)) =>
          UNCHANGED <<heap, venues, filteredVenues, headers, history>>]_vars

C8_Witness ==
    /\ lastOp.op = "importData"
    /\ lastOp.outcome = "SchemaMismatch"
    /\ venues # <<>>
    /\ SelectSeq(ImportHeaders(lastOp.arg), NotLastUpdated) #
           SelectSeq(headers, NotLastUpdated)

\* C9: the text exportData writes of a store, imported into an empty store,
\* gives the same records in every column but Last Updated.
C9_ExportImportRoundTrip ==
    (venues # <<>> /\ headers # <<>>) =>
        LET p == ImportParse(<<>>, <<>>, ExportData(This), now)
        IN  /\ p.outcome = "Imported"
            /\ Len(p.newVenues) = Len(venues)
            /\ \A i \in 1..Len(venues) :
                   \A h \in Range(headers) \ {kLastUpdated} :
                       Val(p.newVenues[i], h) = Val(heap[venues[i]], h)

\* C10: the current page is a page of the view: at least 1 and at most the
\* number of pages, 1 for an empty view.
C10_CurrentPageInRange ==
    /\ 1 <= currentPage
    /\ currentPage <= Max(1, CeilDiv(Len(filteredVenues), pageSize))

\* the only row of the second page was deleted, and the first page is shown
C10_Witness ==
    /\ lastOp.op = "deleteRow"
    /\ lastOp.outcome = "confirmed"
    /\ lastOp.arg = MinPageSize
    /\ pageSize = MinPageSize
    /\ currentPage = 1

\* ---------------------------------------------------------------------------
\* Sorting cells of mixed kinds: a stored table whose Venue cells are numbers
\* and texts, loaded at start and sorted by its columns
\* ---------------------------------------------------------------------------

MaxSortLen == 4
StartSort == 3
SortValues == {<<"2">>, <<"1", "0">>, <<"1", "a">>}

\* a record as importData built it from the row (cell, Paris)
SortVenue(cell) == RowVenue(<<kVenue, kCity>>, <<cell, <<"Paris">>>>, 0)

\* the snapshot of a table with these Venue cells
SortStored(cells) ==
    [Snapshot(Defaults(<<>>, 0)) EXCEPT
        !.venues = [i \in 1..Len(cells) |-> SortVenue(cells[i])],
        !.headers = <<kVenue, kCity, kLastUpdated>>]

InitSort ==
    \E cells \in [1..MaxSortLen -> SortValues] :
        InitWith(<<SortStored(cells)>>, StartSort)

DoSortByColumnAny ==
    \E column \in {kVenue, kCity} :
        \E sorted \in SortOutcomes(filteredVenues, heap,
                                   [kind |-> "column", column |-> column,
                                    direction |-> SortDirectionFor(This, column)]) :
            /\ Idle
            /\ Commit(SortByColumnWith(This, column, sorted),
                      Op("sortByColumn", <<>>, "done"))

NextSort == DoSortByColumnAny

SpecSort == InitSort /\ [][NextSort]_vars

\* the position of a reference in the view
ViewPos(view, ref) == IndexOf(view, ref)

\* C11: a sortByColumn on the active column toggles the direction, one on
\* another column makes it the active column ascending; when the second of
\* two sorts on a column follows the first, the view lists records that the
\* comparator tells apart in the reverse order of the first result and
\* leaves records it holds equal in their order (the records of the view are
\* followed from one result to the next by their place in the store)
C11_SecondSortReverses ==
    [][lastOp'.op = "sortByColumn" =>
        /\ sortColumn' = sortColumn => sortDirection' # sortDirection
        /\ sortColumn' # sortColumn => sortDirection' = "asc"
        /\ (lastOp.op = "sortByColumn" /\ sortColumn' = sortColumn
                /\ sortDirection = "asc"
                /\ Range(filteredVenues) \subseteq Range(venues)) =>
            /\ sortDirection' = "desc"
            /\ \A i, j \in 1..Len(filteredVenues) :
                  i < j =>
                    LET a == filteredVenues[i]
                        b == filteredVenues[j]
                        differ == Compare(heap[a], heap[b],
                                          [kind |-> "column", column |-> sortColumn,
                                           direction |-> "asc"]) # 0
                    IN  IF differ
                        THEN ViewPos(filteredVenues', b) < ViewPos(filteredVenues', a)
                        ELSE ViewPos(filteredVenues', a) < ViewPos(filteredVenues', b)
      ]_vars

\* ---------------------------------------------------------------------------
\* The status pipeline
\* ---------------------------------------------------------------------------

StageTokens == {CANVAS, FOLLOWUP, BOOKED, BOOKAGAIN}

\* the change of Status that a history entry records
StatusChange(entry, old, new) ==
    entry.changes = {[field |-> kStatus, oldValue |-> old, newValue |-> new]}

\* C12: moveToNextStage changes the Status of one record of the store, to
\* FOLLOW-UP from CANVAS, to BOOKED from FOLLOW-UP, to BOOK-AGAIN from BOOKED
\* and to a value containing CANVAS from BOOK-AGAIN; the new Status is one
\* of the four stage tokens.
C12_AdvanceFollowsCycle ==
    [][lastOp'.op = "moveToNextStage" =>
        \E i \in 1..Len(venues) :
            LET old == Val(heap[venues[i]], kStatus)
                new == Val(heap'[venues'[i]], kStatus)
            IN  /\ new # old
                /\ new \in StageTokens
                /\ old = CANVAS => new = FOLLOWUP
                /\ old = FOLLOWUP => new = BOOKED
                /\ old = BOOKED => new = BOOKAGAIN
                /\ old = BOOKAGAIN => Includes(new, CANVAS)
                /\ \A j \in 1..Len(venues) :
                      j # i => Val(heap'[venues'[j]], kStatus)
                                   = Val(heap[venues[j]], kStatus)
      ]_vars

\* four advances of one venue, from CANVAS back to CANVAS
C12_Witness ==
    /\ lastOp.op = "moveToNextStage"
    /\ Len(history) >= 4
    /\ \A k \in 1..4 : history[k].venueId = history[1].venueId
    /\ StatusChange(history[4], CANVAS, FOLLOWUP)
    /\ StatusChange(history[3], FOLLOWUP, BOOKED)
    /\ StatusChange(history[2], BOOKED, BOOKAGAIN)
    /\ StatusChange(history[1], BOOKAGAIN, CANVAS)
    /\ \E i \in 1..Len(venues) :
          /\ GetVenueId(heap[venues[i]]) = history[1].venueId
          /\ Val(heap[venues[i]], kStatus) = CANVAS

\* ---------------------------------------------------------------------------
\* The two debounced search inputs, with the time between their events
\* ---------------------------------------------------------------------------

\* the time that goes by between two events
TimeSteps == {100, 200}

\* a stored table of two venues, B and 2
InitDebounce == InitWith(<<SortStored(<<<<"B">>, <<"2">>>>)>>, 0)

DoHistorySearchInput ==
    \E text \in SearchTexts :
        /\ Idle
        /\ text # historySearchInput
        /\ Commit(HistorySearchInput(This, text),
                  Op("historySearchInput", <<>>, "done"))

\* the rest of the wait goes by and the timer of the debounced history
\* search fires: applyHistoryFilters
DoHistorySearchTimer ==
    /\ historyTimer
    /\ CanElapse(This, timing.historyLeft)
    /\ Commit(HistoryTimerFires(This), Op("applyHistoryFilters", <<>>, "done"))

\* time goes by and no timer is due
DoTimePasses ==
    \E d \in TimeSteps :
        /\ CanElapse(This, d)
        /\ Commit(Elapse(This, d), Op("timePasses", <<>>, "done"))

NextDebounce ==
    \/ DoSearchInput
    \/ DoSearchTimer
    \/ DoHistorySearchInput
    \/ DoHistorySearchTimer
    \/ DoTimePasses

SpecDebounce == InitDebounce /\ [][NextDebounce]_vars

\* the timer of the history search is as it was
HistoryTimerKept ==
    /\ historyTimer' = historyTimer
    /\ timing'.historyEvents = timing.historyEvents
    /\ historyTimer =>
          timing'.historySince + timing'.historyLeft
              = timing.historySince + timing.historyLeft

\* the timer of the venue search is as it was
SearchTimerKept ==
    /\ searchTimer' = searchTimer
    /\ timing'.searchEvents = timing.searchEvents
    /\ searchTimer =>
          timing'.searchSince + timing'.searchLeft
              = timing.searchSince + timing.searchLeft

\* the rows of the store that the search text keeps
SearchKeeps(text) ==
    LET Keep(ref) == PassesFilters(heap[ref], statusFilters, regionFilters,
                                   typeFilters, ToLowerCase(text))
    IN  SelectSeq(venues, Keep)

\* C13: each input event leaves one timer pending for its input, set to the
\* full wait; the debounced handler runs when exactly the wait has gone by
\* since the last event of the burst, once, with the value the input then
\* has; the events and the timer of one input leave the timer of the other
\* input as it was.
C13_DebounceRunsOnceAfterLastEvent ==
    [][/\ lastOp'.op = "searchInput" =>
             /\ searchTimer' /\ timing'.searchLeft = DebounceWait
             /\ HistoryTimerKept
       /\ lastOp'.op = "historySearchInput" =>
             /\ historyTimer' /\ timing'.historyLeft = DebounceWait
             /\ SearchTimerKept
       /\ lastOp'.op = "applyFilters" =>
             /\ searchTimer /\ ~searchTimer'
             /\ timing.searchSince + timing.searchLeft = DebounceWait
             /\ filteredVenues' = SearchKeeps(searchFilter)
             /\ historyTimer' = historyTimer
             /\ timing'.historyEvents = timing.historyEvents
       /\ lastOp'.op = "applyHistoryFilters" =>
             /\ historyTimer /\ ~historyTimer'
             /\ timing.historySince + timing.historyLeft = DebounceWait
             /\ historySearchFilter' = ToLowerCase(historySearchInput)
             /\ searchTimer' = searchTimer
             /\ timing'.searchEvents = timing.searchEvents
       /\ lastOp'.op = "timePasses" =>
             /\ searchTimer' = searchTimer /\ historyTimer' = historyTimer
             /\ filteredVenues' = filteredVenues
             /\ historySearchFilter' = historySearchFilter
      ]_vars

\* the venue search has run once for a burst of two events, while the
\* history search, typed later, is still waiting for its own timer
C13_Witness ==
    /\ lastOp.op = "applyFilters"
    /\ timing.searchEvents = 2
    /\ ~searchTimer
    /\ searchFilter = Empty
    /\ filteredVenues = venues
    /\ historyTimer
    /\ timing.historySince = DebounceWait - 100

\* ---------------------------------------------------------------------------
\* A session on a stored table: the operations that change the store, the
\* history panel, the map and the reload of the page
\* ---------------------------------------------------------------------------

StartSession == 1

\* one entry of a stored history
StoredEntry == AddHistoryEntry(Defaults(<<>>, 0), "Add", SortVenue(<<"B">>), {}).history[1]

\* the data that an earlier session saved: a venue without a Status, a
\* venue on the board and one history entry
SessionStored ==
    [Snapshot(Defaults(<<>>, 0)) EXCEPT
        !.venues = <<RowVenue(<<kVenue, kCity, kState, kStatus>>,
                              <<<<"A">>, <<"Paris">>, <<"TX">>, Empty>>, 0),
                     RowVenue(<<kVenue, kCity, kState, kStatus>>,
                              <<<<"B">>, <<"Paris">>, <<"TX">>, CANVAS>>, 0)>>,
        !.headers = <<kVenue, kCity, kState, kStatus, kLastUpdated>>,
        !.history = <<StoredEntry>>]

\* what localStorage can hold at start: nothing, the data of an earlier
\* session, a text that is no JSON, data whose hiddenColumns is no array
StoredBlobs ==
    {<<>>, <<SessionStored>>,
     <<[SessionStored EXCEPT !.shape = "not JSON"]>>,
     <<[SessionStored EXCEPT !.shape = "hiddenColumns not iterable"]>>}

InitSession == \E stored \in StoredBlobs : InitWith(stored, StartSession)

\* the positions of the map the user can leave it in
MapCenters == {DefaultMapCenter, "Elsewhere"}
MapZooms == {0, DefaultMapZoom}

DoImportSession == ImportDataOf({TextVariant}, MaxVenues)

\* the user searches for a text that the dates of the edit form hold and
\* no cell of the table does
DoSearchSession == SearchInputOf({<<"l">>})

DoClearHistory ==
    \E confirmed \in BOOLEAN :
        /\ Idle
        /\ Commit(IfConfirmed(confirmed, This, ClearHistory(This)),
                  Op("clearHistory", <<>>, IF confirmed THEN "confirmed" ELSE "denied"))

DoMapMoved ==
    \E center \in MapCenters, zoom \in MapZooms :
        /\ Idle
        /\ <<center, zoom>> # <<mapCenter, mapZoom>>
        /\ Commit(MapMoved(This, center, zoom), Op("moveend", <<>>, "done"))

\* the page is loaded again: a new SimpleCRM on what localStorage holds
DoReload ==
    LET loaded == [Constructor(storage, now) EXCEPT !.quotaExceeded = quotaExceeded]
    IN  Commit(loaded, Op("constructor", <<>>, "done"))

NextSession ==
    \/ DoImportSession
    \/ DoAddNewRow
    \/ DoEditRow
    \/ DoSaveEdit
    \/ DoCloseModal
    \/ DoDeleteRow
    \/ DoAddToKanban
    \/ DoMoveToNextStage
    \/ DoClearAllData
    \/ DoClearHistory
    \/ DoMapMoved
    \/ DoReload
    \/ DoSearchSession
    \/ DoSearchTimer

SpecSession == InitSession /\ [][NextSession]_vars

\* C14: a denied deleteRow, clearAllData or clearHistory leaves the venues,
\* the headers, the view, the filters and the search, the sort, the
\* pagination, the history and the stored snapshot as they were.
C14_DenialChangesNothing ==
    [][(lastOp'.op \in {"deleteRow", "clearAllData", "clearHistory"}
            /\ lastOp'.outcome = "denied") =>
          UNCHANGED <<heap, venues, filteredVenues, headers, statusFilters,
                      regionFilters, typeFilters, searchFilter, sortColumn,
                      sortDirection, currentPage, pageSize, totalPages,
                      history, storage>>]_vars

\* clearHistory was denied on a table with venues and a history
C14_Witness ==
    /\ lastOp.op = "clearHistory"
    /\ lastOp.outcome = "denied"
    /\ venues # <<>>
    /\ history # <<>>
    /\ storage # <<>>

\* the snapshot is absent or malformed
MalformedStorage ==
    storage = <<>> \/ storage[1].shape # "object"

\* the state of an application that starts without data
EmptyInitialState ==
    /\ venues = <<>> /\ filteredVenues = <<>> /\ headers = <<>>
    /\ history = <<>>
    /\ hiddenColumns = {}
    /\ sortColumn = NoColumn /\ sortDirection = "asc"
    /\ pageSize = DefaultPageSize /\ currentPage = 1 /\ totalPages = 1
    /\ statusFilters = {} /\ regionFilters = {} /\ typeFilters = {}
    /\ minVenueCount = DefaultMinVenueCount
    /\ mapCenter = DefaultMapCenter /\ mapZoom = DefaultMapZoom
    /\ historyPageSize = DefaultHistoryPageSize
    /\ historySearchFilter = Empty

\* C15: after the constructor has loaded an absent or malformed snapshot
\* the application is in the empty initial state: no venues, no headers,
\* no history and the default settings.
C15_MalformedSnapshotLoadsEmpty ==
    (lastOp.op = "constructor" /\ MalformedStorage) => EmptyInitialState

\* C16: a load after a save restores the saved value of every persisted
\* field: when the page is loaded again on a snapshot that the application
\* saved, the venues, the headers, the hidden columns, the sort, the page
\* size, the filters, the minimum venue count, the map position and zoom,
\* the history, its page size and its search text are the saved ones.
C16_LoadRestoresSaved ==
    [][(lastOp'.op = "constructor" /\ ~MalformedStorage) =>
          LET saved == storage[1]
          IN  /\ [i \in 1..Len(venues') |-> heap'[venues'[i]]] = saved.venues
              /\ headers' = saved.headers
              /\ hiddenColumns' = saved.hiddenColumns
              /\ sortColumn' = saved.sortColumn
              /\ sortDirection' = saved.sortDirection
              /\ pageSize' = saved.pageSize
              /\ statusFilters' = saved.statusFilters
              /\ regionFilters' = saved.regionFilters
              /\ typeFilters' = saved.typeFilters
              /\ minVenueCount' = saved.minVenueCount
              /\ mapCenter' = saved.mapCenter
              /\ mapZoom' = saved.mapZoom
              /\ history' = saved.history
              /\ historyPageSize' = saved.historyPageSize
              /\ historySearchFilter' = saved.historySearchFilter
      ]_vars

\* the operations that change the store or the history, run to completion
StoreMutation(op) ==
    \/ op.op = "importData" /\ op.outcome = "Imported"
    \/ op.op = "saveEdit" /\ op.outcome \in {"Add", "Edit"}
    \/ op.op \in {"deleteRow", "clearAllData", "clearHistory"}
           /\ op.outcome = "confirmed"
    \/ op.op \in {"addToKanban", "moveToNextStage"}

\* C17: when an import, an add, an edit, a delete, an assignment to CANVAS,
\* a status advance, a clear of the data or a clear of the history has run
\* to completion, the venues, the headers and the history of the stored
\* snapshot are those in memory.
C17_SnapshotFollowsMutation ==
    [][StoreMutation(lastOp') =>
          /\ storage' # <<>>
          /\ storage'[1].venues = [i \in 1..Len(venues') |-> heap'[venues'[i]]]
          /\ storage'[1].headers = headers'
          /\ storage'[1].history = history'
      ]_vars

\* the history of a table with venues was cleared and the snapshot has it
C17_Witness ==
    /\ lastOp.op = "clearHistory"
    /\ lastOp.outcome = "confirmed"
    /\ venues # <<>>
    /\ history = <<>>
    /\ storage # <<>>
    /\ storage[1].history = <<>>
    /\ Len(storage[1].venues) = Len(venues)

\* ---------------------------------------------------------------------------
\* The view and the export against the store
\* ---------------------------------------------------------------------------

\* the operations that filter, sort, page and hide columns
ViewOperations ==
    {"sortByColumn", "applyFilters", "applyFilterModal", "searchInput",
     "goToPage", "changePageSize", "applyColumnToggle"}

\* the lines of the exported file, the header line and the final empty
\* line left out
ExportedLines ==
    LET lines == Split(ExportData(This), NL)
    IN  SubSeq(lines, 2, Len(lines) - 1)

\* C18: filtering, sorting, paging and column hiding leave the records of
\* the store, their order and the headers as they were; the exported file
\* has one line for each record of the store, in the order of the store,
\* with the record's cell for every header, whatever the view shows.
C18_ViewLeavesStore ==
    /\ [][lastOp'.op \in ViewOperations =>
             /\ [i \in 1..Len(venues') |-> heap'[venues'[i]]]
                    = [i \in 1..Len(venues) |-> heap[venues[i]]]
             /\ headers' = headers]_vars
    /\ [](venues # <<>> =>
             /\ Len(ExportedLines) = Len(venues)
             /\ \A i \in 1..Len(venues) :
                   ExportedLines[i]
                       = Join([j \in 1..Len(headers) |->
                                  Val(heap[venues[i]], headers[j])], TAB))

\* a table of six venues, sorted downwards by Venue with the City hidden:
\* the view is the store in reverse
C18_Witness ==
    /\ lastOp.op = "sortByColumn"
    /\ sortColumn = kVenue /\ sortDirection = "desc"
    /\ hiddenColumns = {kCity}
    /\ Len(venues) = MaxVenuesPaging
    /\ filteredVenues = [i \in 1..Len(venues) |-> venues[Len(venues) + 1 - i]]

\* ---------------------------------------------------------------------------
\* What applyFilters keeps
\* ---------------------------------------------------------------------------

\* some cell of the record, the value it has for a header, contains the text
\* whatever the case
SomeCellContains(venue, hdrs, text) ==
    \E j \in 1..Len(hdrs) :
        Includes(ToLowerCase(Val(venue, hdrs[j])), ToLowerCase(text))

\* the record passes the three filters and the search
ShouldKeep(venue, hdrs, status, region, type, text) ==
    /\ status = {} \/ Val(venue, kStatus) \in status
    /\ region = {} \/ Val(venue, kRegion) \in region
    /\ type = {} \/ Val(venue, kType) \in type
    /\ text = Empty \/ SomeCellContains(venue, hdrs, text)

\* C19: after applyFilters the view holds a record of the store if and only
\* if its Status, Region and Type are each in the filter of that name or
\* the filter is empty, and the search text is empty or in one of the
\* record's cells, whatever the case; without an active sort the view lists
\* the kept records in the order of the store.
C19_KeepsIffPassesFilters ==
    [][lastOp'.op \in {"applyFilters", "applyFilterModal"} =>
          /\ \A i \in 1..Len(venues') :
                (\E k \in 1..Len(filteredVenues') : filteredVenues'[k] = venues'[i])
                  <=> ShouldKeep(heap'[venues'[i]], headers', statusFilters',
                                 regionFilters', typeFilters', searchFilter')
          /\ \A k \in 1..Len(filteredVenues') :
                \E i \in 1..Len(venues') : filteredVenues'[k] = venues'[i]
          /\ sortColumn' = NoColumn =>
                \A k, l \in 1..Len(filteredVenues') :
                    k < l => IndexOf(venues', filteredVenues'[k])
                                 < IndexOf(venues', filteredVenues'[l])
      ]_vars

\* ---------------------------------------------------------------------------
\* geocodeLocation on the indexes that geo.js files can make
\* ---------------------------------------------------------------------------

MaxGeoRows == 5

\* the lines of a geo.js: some of the first MaxGeoRows lines, in their order
GeoFiles ==
    {SelectSeq([i \in 1..MaxGeoRows |-> GeoRows[i]],
               LAMBDA row : \E i \in chosen : GeoRows[i] = row) :
        chosen \in SUBSET (1..MaxGeoRows)}

\* the keys that updateMap makes of the City and the State of a venue, a
\* bare name and the empty string
GeoLocations ==
    {<<"Paris", ",", SP, "TX">>,
     <<"Paris", ",", SP, "MO">>,
     <<"St.", SP, "Louis", ",", SP, "MO">>,
     <<"Paris">>,
     <<"constructor", ",">>,
     Empty}

InitGeocode ==
    \E file \in GeoFiles :
        InitFrom([Constructor(<<>>, 0) EXCEPT !.geoData = LoadGeoData(file)])

DoGeocodeLocation ==
    \E location \in GeoLocations :
        Commit([This EXCEPT !.located =
                    [location |-> location,
                     coordinates |-> GeocodeLocation(geoData, location)]],
               Op("geocodeLocation", <<>>, "done"))

NextGeocode == DoGeocodeLocation

SpecGeocode == InitGeocode /\ [][NextGeocode]_vars

\* the keys geocodeLocation looks up, in their order: the location with the
\* state and the city expanded, with the state expanded, as given
LookupKeys(location) ==
    <<ExpandCityAbbreviations(ExpandStateAbbreviations(location)),
      ExpandStateAbbreviations(location),
      location>>

\* the name of the city alone
BareCity(location) == Trim(Split(LookupKeys(location)[1], ",")[1])

\* no other key of the index begins with the city and a comma
BareCityUnique(index, location) ==
    \A key \in GeoKeys(index) :
        key = BareCity(location)
            \/ ~StartsWith(key, BareCity(location) \o <<",">>)

\* C20: geocodeLocation returns the value that the index stores under the
\* first of the keys (state and city expanded, state expanded, as given)
\* that it holds, else the value stored under the bare city name when the
\* index holds it and no other key begins with that name and a comma, else
\* not found; what it returns is not found or a value stored in the index.
C20_FirstExactLookup ==
    lastOp.op = "geocodeLocation" =>
        LET keys == LookupKeys(located.location)
            found == {k \in 1..Len(keys) : keys[k] \in GeoKeys(geoData)}
            first == CHOOSE k \in found : \A l \in found : k <= l
            city == BareCity(located.location)
        IN  /\ located.coordinates =
                  IF found # {} THEN OwnProperty(geoData, keys[first])
                  ELSE IF city \in GeoKeys(geoData)
                          /\ BareCityUnique(geoData, located.location)
                  THEN OwnProperty(geoData, city)
                  ELSE Null
            /\ located.coordinates = Null
                  \/ \E i \in 1..Len(geoData) :
                        located.coordinates = geoData[i].value

\* ---------------------------------------------------------------------------
\* The history as a log
\* ---------------------------------------------------------------------------

\* C21: every operation other than clearHistory and clearAllData leaves the
\* history it found as the end of the history it leaves: the entries that
\* were there are the same, in the same order, and what the operation adds
\* is in front of them.
C21_HistoryAppendOnly ==
    [][lastOp'.op \notin {"clearHistory", "clearAllData"} =>
          /\ Len(history') >= Len(history)
          /\ SubSeq(history', Len(history') - Len(history) + 1, Len(history'))
                 = history
      ]_vars

\* an edit was recorded in front of the entry of the stored history and of
\* the entry of an add
C21_Witness ==
    /\ lastOp.op = "saveEdit" /\ lastOp.outcome = "Edit"
    /\ Len(history) = 3
    /\ history[1].action = "Edit"
    /\ history[2].action = "Add"
    /\ history[3] = StoredEntry

\* ---------------------------------------------------------------------------
\* The header schema and the records
\* ---------------------------------------------------------------------------

\* C22: the properties of every record of the store are the headers: no
\* header is missing in a record, and no record has a property that is no
\* header.
C22_RecordsHaveHeaderSchema ==
    \A i \in 1..Len(venues) : DOMAIN heap[venues[i]] = Range(headers)

\* the files the user imports one after the other: a file whose second row
\* has no State and no Status, a file whose row begins with an empty cell,
\* a file that has the Last Updated column after the Venue, and a file of
\* other columns
HeaderLineStamped == Line(<<kVenue, kLastUpdated, kCity, kState, kStatus>>)

TextShortRow ==
    Text(<<HeaderLine,
           Line(<<<<"A">>, <<"Paris">>, <<"TX">>, CANVAS>>),
           Line(<<<<"B">>, <<"Paris">>>>)>>)

TextLeadingEmpty ==
    Text(<<HeaderLine,
           Line(<<Empty, <<"Paris">>, <<"TX">>, BOOKED>>)>>)

TextStamped ==
    Text(<<HeaderLineStamped,
           Line(<<<<"B">>, <<"T", "9">>, <<"Paris">>, <<"TX">>, BOOKED>>)>>)

PositionTexts == {TextShortRow, TextLeadingEmpty, TextStamped, TextSwapped}

DoImportPositions == ImportDataOf(PositionTexts, MaxVenues)

NextImport ==
    \/ DoImportPositions
    \/ DoClearAllData

SpecImport == Init /\ [][NextImport]_vars

\* C23: once there are headers, no operation other than a confirmed
\* clearAllData changes them: an import whose header line is another one
\* either is rejected or leaves the headers as they were.
C23_HeadersSetOnce ==
    [][(headers # <<>>
          /\ ~(lastOp'.op = "clearAllData" /\ lastOp'.outcome = "confirmed")) =>
          headers' = headers]_vars

\* a file that has the Last Updated column in another place than the
\* headers was imported, and the headers are not those of the file
C23_Witness ==
    /\ lastOp.op = "importData"
    /\ lastOp.outcome = "Imported"
    /\ lastOp.imported >= 1
    /\ Len(ImportHeaders(lastOp.arg)) = Len(headers)
    /\ ImportHeaders(lastOp.arg) # headers

\* the data rows of a file: the lines after the header line that are not
\* blank, each split into its cells
DataRows(rawText) ==
    LET lines == Split(Trim(rawText), NL)
        NotBlank(line) == Trim(line) # Empty
        Cells(line) == Split(line, TAB)
        rows == SelectSeq(SubSeq(lines, 2, Len(lines)), NotBlank)
    IN  [i \in 1..Len(rows) |-> Cells(rows[i])]

\* the cell of a row under a column of the file's header line, the empty
\* string where the row has no such cell
CellUnder(fileHeaders, cells, column) ==
    LET j == IndexOf(fileHeaders, column)
    IN  IF j # 0 /\ j <= Len(cells) THEN cells[j] ELSE Empty

\* C25: the records that an import appends to the store are made of data
\* rows of the file, in the order of the file: under every column other
\* than Last Updated a record has the cell that its row has at the position
\* of that column in the header line of the file, and the empty string when
\* the row has no cell there.
C25_RecordTakesCellsByHeader ==
    [][(lastOp'.op = "importData" /\ lastOp'.outcome = "Imported") =>
          LET fileHeaders == ImportHeaders(lastOp'.arg)
              rows == DataRows(lastOp'.arg)
              added == [k \in 1..(Len(venues') - Len(venues)) |->
                           heap'[venues'[Len(venues) + k]]]
          IN  \E row \in [1..Len(added) -> 1..Len(rows)] :
                  /\ \A k, l \in 1..Len(added) : k < l => row[k] < row[l]
                  /\ \A k \in 1..Len(added) :
                        \A column \in Range(headers') \ {kLastUpdated} :
                            Val(added[k], column)
                                = CellUnder(fileHeaders, rows[row[k]], column)
      ]_vars

\* ---------------------------------------------------------------------------
\* The derived id in the history
\* ---------------------------------------------------------------------------

\* C24: the Add and Edit entries of the history that were recorded for a
\* venue of the store carry the id that the venue has now, and
\* editVenueFromHistory finds the venue by it.  Which venue an entry was
\* recorded for is known where the store holds one venue and the history
\* has no Delete entry: every entry is then one of that venue.
C24_DerivedIdFindsVenue ==
    (Len(venues) = 1 /\ \A k \in 1..Len(history) : history[k].action # "Delete") =>
        \A k \in 1..Len(history) :
            history[k].action \in {"Add", "Edit"} =>
                /\ history[k].venueId = GetVenueId(heap[venues[1]])
                /\ FindVenueById(This, history[k].venueId) = 1

\* ---------------------------------------------------------------------------
\* A stored table of three pages: the page, the page size, the sort and the
\* layout
\* ---------------------------------------------------------------------------

\* one row more than two pages of the second smallest size hold
LayoutRows == 11

\* the Venue cells of the stored table: 0 to 9, then 10 and more
LayoutCells ==
    [i \in 1..LayoutRows |->
        IF i <= Len(Digit) THEN <<Digit[i]>>
        ELSE <<Digit[((i - 1) \div Len(Digit)) + 1],
               Digit[((i - 1) % Len(Digit)) + 1]>>]

InitLayout ==
    InitWith(<<[SortStored(LayoutCells) EXCEPT !.pageSize = MinPageSize]>>,
             StartPaging)

DoResetTableLayout ==
    \E confirmed \in BOOLEAN :
        /\ Idle
        /\ Commit(IfConfirmed(confirmed, This, ResetTableLayout(This)),
                  Op("resetTableLayout", <<>>,
                     IF confirmed THEN "confirmed" ELSE "denied"))

NextLayout ==
    \/ DoGoToPage
    \/ DoChangePageSize
    \/ DoSortByColumn
    \/ DoResetTableLayout
    \/ DoApplyFilterModal
    \/ DoClearAllFilters
    \/ DoSaveTimer

SpecLayout == InitLayout /\ [][NextLayout]_vars

\* C26: applyFilters, clearAllFilters, sortByColumn and a confirmed
\* resetTableLayout leave the first page as the current page; a change of
\* the page size leaves the current page as it was, where the view still
\* has that page with the new size.
C26_PageResetOnFilterOrSort ==
    [][/\ (\/ lastOp'.op \in {"applyFilters", "applyFilterModal",
                               "clearAllFilters", "sortByColumn"}
           \/ lastOp'.op = "resetTableLayout" /\ lastOp'.outcome = "confirmed")
          => currentPage' = 1
       /\ (lastOp'.op = "changePageSize"
             /\ currentPage <= CeilDiv(Len(filteredVenues), pageSize'))
          => currentPage' = currentPage
      ]_vars

\* ---------------------------------------------------------------------------
\* The number of pages
\* ---------------------------------------------------------------------------

\* C27: the number of pages is the number of rows of the view divided by
\* the page size, rounded up, and 1 for an empty view; the rows shown are
\* those of the view from (page - 1) * size up to, not including,
\* page * size.
C27_TotalPagesAtLeastOne ==
    /\ totalPages = Max(1, CeilDiv(Len(filteredVenues), pageSize))
    /\ RowsShown(This) =
           {i \in 0..(Len(filteredVenues) - 1) :
               (currentPage - 1) * pageSize <= i /\ i < currentPage * pageSize}

\* ---------------------------------------------------------------------------
\* The pipeline on a stored table whose Status cells are free text
\* ---------------------------------------------------------------------------

PipelineVenues == 2

\* what an imported Status cell can be: nothing, a space, a text without a
\* stage, a text with two stages, a text with something before the stage,
\* the last stage
PipelineStatuses ==
    {Empty, <<SP>>, <<"B">>, <<"BOOKED", SP, "CANVAS">>,
     <<"A", SP, "FOLLOW-UP">>, BOOKAGAIN}

\* the snapshot of a table with these Status cells; the Region after the
\* Status keeps a Status of spaces from being trimmed off its row
PipelineStored(statuses) ==
    [Snapshot(Defaults(<<>>, 0)) EXCEPT
        !.venues = [i \in 1..Len(statuses) |->
                       RowVenue(<<kVenue, kCity, kState, kStatus, kRegion>>,
                                <<<<Digit[i]>>, <<"Paris">>, <<"TX">>,
                                  statuses[i], <<"B">>>>, 0)],
        !.headers = <<kVenue, kCity, kState, kStatus, kRegion, kLastUpdated>>]

InitPipeline ==
    \E statuses \in [1..PipelineVenues -> PipelineStatuses] :
        InitWith(<<PipelineStored(statuses)>>, StartSession)

\* moveToNextStage called on a venue that has no card on the board.  The
\* board offers the move on the cards only, and it has a card for the
\* venues with a stage in their Status; this is the call of the method with
\* any other venue of the store.
DoMoveToNextStageNoCard ==
    \E i \in 1..Len(venues) :
        /\ Idle
        /\ ~HasKanbanCard(heap[venues[i]])
        /\ Commit(MoveToNextStage(This, venues[i]),
                  Op("moveToNextStage", i, "done"))

NextPipeline ==
    \/ DoMoveToNextStage
    \/ DoMoveToNextStageNoCard
    \/ DoAddToKanban
    \/ DoSortByColumn

SpecPipeline == InitPipeline /\ [][NextPipeline]_vars

\* the stages in their order
StageOrder == <<CANVAS, FOLLOWUP, BOOKED, BOOKAGAIN>>

\* the position in StageOrder of the first stage that the Status contains,
\* 0 when it contains none
FirstStage(status) ==
    IF \E k \in 1..Len(StageOrder) : Includes(status, StageOrder[k])
    THEN CHOOSE k \in 1..Len(StageOrder) :
             /\ Includes(status, StageOrder[k])
             /\ \A j \in 1..(k - 1) : ~Includes(status, StageOrder[j])
    ELSE 0

\* the stage after the stage at position k, the first after the last
StageAfter(k) == StageOrder[(k % Len(StageOrder)) + 1]

\* C28: moveToNextStage on a venue whose Status contains a stage takes the
\* first of CANVAS, FOLLOW-UP, BOOKED, BOOK-AGAIN that the Status contains
\* as the current stage, makes the next stage, CANVAS after BOOK-AGAIN, the
\* whole Status, stamps Last Updated with the time of the call and puts one
\* entry in the history: an Edit of that venue whose one change is the
\* Status, from the Status as it was to the new one.
C28_AdvanceTakesFirstStage ==
    [][(lastOp'.op = "moveToNextStage"
          /\ FirstStage(Val(heap[venues[lastOp'.arg]], kStatus)) # 0) =>
          LET i == lastOp'.arg
              old == Val(heap[venues[i]], kStatus)
              new == StageAfter(FirstStage(old))
              after == heap'[venues'[i]]
          IN  /\ Val(after, kStatus) = new
              /\ Val(after, kLastUpdated) = ISO(now)
              /\ \A h \in Range(headers) \ {kStatus, kLastUpdated} :
                    Val(after, h) = Val(heap[venues[i]], h)
              /\ Len(history') = Len(history) + 1
              /\ Tail(history') = history
              /\ history'[1].action = "Edit"
              /\ history'[1].venueId = GetVenueId(heap[venues[i]])
              /\ StatusChange(history'[1], old, new)
      ]_vars

\* a venue whose Status named BOOKED before CANVAS was moved on from
\* CANVAS: it is at FOLLOW-UP
C28_Witness ==
    /\ lastOp.op = "moveToNextStage"
    /\ history # <<>>
    /\ StatusChange(history[1], <<"BOOKED", SP, "CANVAS">>, FOLLOWUP)
    /\ Val(heap[venues[lastOp.arg]], kStatus) = FOLLOWUP
    /\ Val(heap[venues[lastOp.arg]], kLastUpdated) = history[1].timestamp

\* C29: moveToNextStage on a venue whose Status contains no stage, an
\* empty Status included, changes nothing: the records, the store, the
\* view and its pages, the history and the stored snapshot are as they
\* were.
C29_NoStageNoChange ==
    [][(lastOp'.op = "moveToNextStage"
          /\ FirstStage(Val(heap[venues[lastOp'.arg]], kStatus)) = 0) =>
          UNCHANGED <<heap, venues, filteredVenues, headers, history, storage,
                      sortColumn, sortDirection, currentPage, totalPages>>
      ]_vars

\* moveToNextStage was called on a venue with the Status B in a table that
\* is sorted by Last Updated and has an entry in its history: the venue
\* has the Status and the stamp of the import
C29_Witness ==
    /\ lastOp.op = "moveToNextStage"
    /\ Val(heap[venues[lastOp.arg]], kStatus) = <<"B">>
    /\ Val(heap[venues[lastOp.arg]], kLastUpdated) = ISO(0)
    /\ sortColumn = kLastUpdated
    /\ Len(history) = 1

\* C30: addToKanban runs on a venue whose Status is empty or blank; it
\* makes CANVAS the Status of the venue and stamps Last Updated with the
\* time of the call, and the Edit entry it records has the Status as it
\* was as the old value and CANVAS as the new one.
C30_CanvasFromBlankStatus ==
    [][lastOp'.op = "addToKanban" =>
          LET ref == filteredVenues[lastOp'.arg + 1]
              old == Val(heap[ref], kStatus)
              k == IndexOf(venues, ref)
          IN  /\ Trim(old) = Empty
              /\ k # 0 =>
                    /\ Val(heap'[venues'[k]], kStatus) = CANVAS
                    /\ Val(heap'[venues'[k]], kLastUpdated) = ISO(now)
              /\ Len(history') = Len(history) + 1
              /\ history'[1].action = "Edit"
              /\ StatusChange(history'[1], old, CANVAS)
      ]_vars

(***************************************************************************)
(* Delete entries of the history and the removal they announce.            *)
(***************************************************************************)
\* the values a history entry keeps of a venue
EntryOf(entry) ==
    [venueId |-> entry.venueId, venueName |-> entry.venueName,
     city |-> entry.city, state |-> entry.state]

\* C31: a confirmed deleteRow puts one Delete entry at the head of the
\* history, with the derived id, name, city and state the row's venue had
\* before the deletion, and the same operation removes one record from the
\* store: no Delete entry is recorded without a removal from the store.
C31_DeleteEntryThenRemoval ==
    [][(lastOp'.op = "deleteRow" /\ lastOp'.outcome = "confirmed") =>
          LET venue == heap[filteredVenues[lastOp'.arg + 1]]
          IN  /\ Len(history') = Len(history) + 1
              /\ Tail(history') = history
              /\ history'[1].action = "Delete"
              /\ EntryOf(history'[1]) =
                     [venueId |-> GetVenueId(venue),
                      venueName |-> IF Val(venue, kVenue) = Empty
                                    THEN <<"Unknown Venue">> ELSE Val(venue, kVenue),
                      city |-> Val(venue, kCity),
                      state |-> Val(venue, kState)]
              /\ Len(venues') = Len(venues) - 1]_vars

\* the first half of C31 alone: the entry and its values
C31_EntryCarriesVenue ==
    [][(lastOp'.op = "deleteRow" /\ lastOp'.outcome = "confirmed") =>
          LET venue == heap[filteredVenues[lastOp'.arg + 1]]
          IN  /\ Tail(history') = history
              /\ history'[1].action = "Delete"
              /\ history'[1].venueId = GetVenueId(venue)
              /\ history'[1].city = Val(venue, kCity)
              /\ history'[1].state = Val(venue, kState)]_vars

(***************************************************************************)
(* A localStorage with no room left: setItem throws on every write.        *)
(***************************************************************************)
\* the application starts on an empty localStorage or on a stored table,
\* and the storage has room or has none
InitQuota ==
    \E stored \in {<<>>, <<SessionStored>>}, full \in BOOLEAN :
        InitFrom([Constructor(stored, StartSession) EXCEPT !.quotaExceeded = full])

NextQuota ==
    \/ DoImportSession
    \/ DoEditRow
    \/ DoSaveEdit
    \/ DoCloseModal
    \/ DoDeleteRow
    \/ DoAddToKanban
    \/ DoMoveToNextStage
    \/ DoClearAllData
    \/ DoClearHistory

SpecQuota == InitQuota /\ [][NextQuota]_vars

\* the handlers that save, on the inputs lastOp keeps of their run
SavingOps == {"importData", "saveEdit", "deleteRow", "addToKanban",
              "moveToNextStage", "clearAllData", "clearHistory"}

\* the run of the handler that op records, from state s
Operation(s, op) ==
    CASE op.op = "importData" ->
             IF op.outcome = "Imported" THEN ImportData(s, op.arg) ELSE s
      [] op.op = "saveEdit" ->
             IF op.outcome = "TypeError" THEN s ELSE SaveEdit(s, op.arg)
      [] op.op = "deleteRow" ->
             IfConfirmed(op.outcome = "confirmed", s, DeleteRow(s, op.arg))
      [] op.op = "addToKanban" -> AddToKanban(s, s.filteredVenues[op.arg + 1])
      [] op.op = "moveToNextStage" -> MoveToNextStage(s, s.venues[op.arg])
      [] op.op = "clearAllData" ->
             IfConfirmed(op.outcome = "confirmed", s, ClearAllData(s))
      [] op.op = "clearHistory" ->
             IfConfirmed(op.outcome = "confirmed", s, ClearHistory(s))

\* everything but the content of localStorage
InMemory(s) == [s EXCEPT !.storage = <<>>, !.quotaExceeded = FALSE]

\* C32: while localStorage has no room, a handler that saves leaves the
\* stored snapshot as it was and completes: the venues, the headers, the
\* view, the history, the settings and the modal are exactly what the same
\* handler makes of the same state and inputs when the write succeeds.
C32_FailedSaveKeepsMemory ==
    [][(quotaExceeded /\ lastOp'.op \in SavingOps) =>
          /\ storage' = storage
          /\ InMemory(This)' =
                 InMemory(Canon(Tick(Operation(
                     [This EXCEPT !.quotaExceeded = FALSE], lastOp'))))]_vars

\* a venue was deleted while the storage had no room: the store has lost
\* the record, the history has its Delete entry, and the snapshot still
\* has the venue and not the entry
C32_Witness ==
    /\ quotaExceeded
    /\ lastOp.op = "deleteRow"
    /\ lastOp.outcome = "confirmed"
    /\ history # <<>>
    /\ history[1].action = "Delete"
    /\ storage # <<>>
    /\ Len(storage[1].venues) > Len(venues)
    /\ Len(storage[1].history) < Len(history)

(***************************************************************************)
(* The history panel: its search, its pages and its rows.                  *)
(***************************************************************************)
StoredHistoryLen == 6

HistoryPageSizeOptions == {5, 10, 25, 50, 100, 200}

\* goToHistoryPage
GoToHistoryPage(s, page) ==
    IF page >= 1 /\ page <= s.historyTotalPages /\ page # s.historyCurrentPage
    THEN UpdateHistoryTable([s EXCEPT !.historyCurrentPage = page])
    ELSE s

\* the change listener of #historyPageSizeSelect
ChangeHistoryPageSize(s, size) ==
    SaveToLocalStorage(UpdateHistoryTable(
        [s EXCEPT !.historyPageSize = size, !.historyCurrentPage = 1]))

\* the k-th entry of a stored history: an Edit of B that set its Status, an
\* Add of A and a Delete of 2, in turn
StoredEntryAt(k) ==
    LET start == Defaults(<<>>, 0)
        toCanvas == {[field |-> kStatus, oldValue |-> Empty, newValue |-> CANVAS]}
    IN  CASE k % 3 = 1 ->
                 AddHistoryEntry(start, "Edit", SortVenue(<<"B">>), toCanvas).history[1]
          [] k % 3 = 2 ->
                 AddHistoryEntry(start, "Add", SortVenue(<<"A">>), {}).history[1]
          [] k % 3 = 0 ->
                 AddHistoryEntry(start, "Delete", SortVenue(<<"2">>), {}).history[1]

\* the data an earlier session saved: two venues and a history that fills
\* more than one page of the panel
HistoryStored ==
    [SessionStored EXCEPT !.history = [k \in 1..StoredHistoryLen |-> StoredEntryAt(k)]]

InitHistory == InitWith(<<HistoryStored>>, StartSession)

\* the texts the user types into the search input of the history panel
HistorySearchTexts == {Empty, <<"B">>, <<"CANVAS">>, <<"l">>}

DoHistorySearchPanel ==
    \E text \in HistorySearchTexts :
        /\ Idle
        /\ text # historySearchInput
        /\ Commit(HistorySearchInput(This, text),
                  Op("historySearchInput", <<>>, "done"))

\* the buttons of the pagination of the history panel
DoGoToHistoryPage ==
    \E page \in 1..historyTotalPages :
        /\ Idle
        /\ page # historyCurrentPage
        /\ Commit(GoToHistoryPage(This, page), Op("goToHistoryPage", <<>>, "done"))

DoChangeHistoryPageSize ==
    \E size \in HistoryPageSizeOptions :
        /\ Idle
        /\ Len(history) >= 5
        /\ size # historyPageSize
        /\ Commit(ChangeHistoryPageSize(This, size),
                  Op("changeHistoryPageSize", <<>>, "done"))

NextHistory ==
    \/ DoHistorySearchPanel
    \/ DoHistorySearchTimer
    \/ DoGoToHistoryPage
    \/ DoChangeHistoryPageSize
    \/ DoAddToKanban
    \/ DoDeleteRow
    \/ DoClearHistory
    \/ DoClearAllData

SpecHistory == InitHistory /\ [][NextHistory]_vars

\* an entry's venue name, city, state, action, or a change's field, old
\* value or new value contains the term, whatever the case of either
ContainsTerm(entry, term) ==
    LET Has(text) == Includes(ToLowerCase(text), ToLowerCase(term))
    IN  \/ Has(entry.venueName) \/ Has(entry.city) \/ Has(entry.state)
        \/ Includes(ActionText(entry.action), ToLowerCase(term))
        \/ \E change \in entry.changes :
               Has(change.field) \/ Has(change.oldValue) \/ Has(change.newValue)

\* the entries of the history that the search of the panel matches, in the
\* order of the history
HistoryMatches ==
    LET Matches(entry) == ContainsTerm(entry, historySearchFilter)
    IN  SelectSeq(history, Matches)

\* the rows of the history table are the page historyCurrentPage of the
\* matching entries
TableShowsPage ==
    historyTableBody =
        Slice(HistoryMatches, (historyCurrentPage - 1) * historyPageSize,
              historyCurrentPage * historyPageSize)

\* historyCurrentPage is a page of the matching entries
HistoryPageInRange ==
    historyCurrentPage \in
        1..Max(1, CeilDiv(Len(HistoryMatches), historyPageSize))

\* the handlers that add an entry to the history, clear it or filter it
HistoryAdders == {"saveEdit", "deleteRow", "addToKanban", "moveToNextStage"}
HistoryClearers == {"clearHistory", "clearAllData"}
HistoryFilterers == {"applyHistoryFilters"}

\* C33: the history table shows the page historyCurrentPage of the entries
\* that contain the search term, newest first, and after a handler that
\* added an entry, cleared the history or filtered it, historyCurrentPage
\* is between 1 and the number of pages of the matching entries (1 when
\* there is none).
C33_HistoryTablePaged ==
    /\ TableShowsPage
    /\ (lastOp.op \in HistoryAdders \cup HistoryClearers \cup HistoryFilterers
            /\ lastOp.outcome # "denied")
          => HistoryPageInRange

\* C33 in the states that no clearAllData has made (the only handler that
\* empties the headers)
C33_ExceptClearAllData ==
    headers # <<>> => C33_HistoryTablePaged

(***************************************************************************)
(* The minimum venue count of the map.                                     *)
(***************************************************************************)
\* parseInt(text): <<>> for NaN, <<n>> for the integer n.  Leading white
\* space is skipped, a sign is read, then the digits up to the first
\* character that is none.
ParseInt(text) ==
    LET t == TrimStart(text)
        signed == t # Empty /\ t[1] \in {"-", "+"}
        body == IF signed THEN Tail(t) ELSE t
        IsDigits(k) == \A i \in 1..k : body[i] \in DigitSet
        n == CHOOSE k \in 0..Len(body) :
                 IsDigits(k) /\ (k < Len(body) => ~IsDigits(k + 1))
        magnitude == DigitsValue(SubSeq(body, 1, n))
    IN  IF n = 0 THEN <<>>
        ELSE IF t[1] = "-" THEN <<0 - magnitude>>
        ELSE <<magnitude>>

\* the input listener of #minVenueFilter
MinVenueInput(s, value) ==
    LET parsed == ParseInt(value)
        minCount == IF parsed = <<>> \/ parsed = <<0>> THEN 1 ELSE parsed[1]
    IN  SaveToLocalStorage([s EXCEPT !.minVenueCount = minCount])

\* what the user types into the input: nothing, zero, a count, a negative
\* number, a text that is no number, a decimal
MinVenueTexts ==
    {Empty, <<"0">>, <<"2">>, <<"-", "3">>, <<"a">>, <<"2", ".", "5">>, <<SP, "1", "0">>}

\* the application starts on an empty localStorage or on a stored table
\* with a stored threshold (0 stands for a snapshot without one)
InitThreshold ==
    \E stored \in {<<>>} \cup
                  {<<[SessionStored EXCEPT !.minVenueCount = count]>> : count \in {0, 1, 3}} :
        InitWith(stored, StartSession)

DoMinVenueInput ==
    \E value \in MinVenueTexts :
        /\ Idle
        /\ Commit(MinVenueInput(This, value), Op("minVenueInput", value, "done"))

NextThreshold ==
    \/ DoMinVenueInput
    \/ DoReload
    \/ DoClearAllData
    \/ DoDeleteRow

SpecThreshold == InitThreshold /\ [][NextThreshold]_vars

\* C34: the minimum venue count is an integer of at least 1 in every state,
\* whatever was typed into the input and whatever snapshot was restored.
C34_ThresholdAtLeastOne == minVenueCount \in Nat /\ minVenueCount >= 1

\* C34 as long as no negative number was typed: the threshold restored
\* from a snapshot and the one parsed from the input are at least 1
C34_UnlessNegativeInput ==
    [][(minVenueCount >= 1 /\ ~(lastOp'.op = "minVenueInput"
                                  /\ ParseInt(lastOp'.arg) # <<>>
                                  /\ ParseInt(lastOp'.arg)[1] < 0))
          => minVenueCount' >= 1]_vars

(***************************************************************************)
(* The edit form and the debounced search.                                 *)
(***************************************************************************)
\* the row of the view that saveEdit writes to is the venue the form was
\* filled from
FormIsOfEditedRow ==
    /\ currentEditIndex + 1 <= Len(filteredVenues)
    /\ PopulateForms(This, heap[filteredVenues[currentEditIndex + 1]]) = form

\* C35: saveEdit of an existing venue writes the submitted values to the
\* venue that editRow opened and to no other record, also when the timer of
\* the debounced search has fired since and has replaced the view: the
\* save does not fail, the row it writes to is the venue whose values
\* filled the form, and no other record of the store changes.
C35_EditLandsOnOpenedVenue ==
    [][(lastOp'.op = "saveEdit" /\ currentEditIndex # -1) =>
          /\ lastOp'.outcome = "Edit"
          /\ FormIsOfEditedRow
          /\ \A k \in 1..Len(venues) :
                 StoreRecords(This)'[k] # StoreRecords(This)[k] =>
                     venues[k] = filteredVenues[currentEditIndex + 1]]_vars

(***************************************************************************)
(* The view and the store.                                                 *)
(***************************************************************************)
\* C36: in every state each record of the view is a record of the store
\* with the same value in every field: the view shows no venue that the
\* store does not have, and no value that differs from the store's.
C36_ViewShowsStoreRecords ==
    \A i \in 1..Len(filteredVenues) :
        \E k \in 1..Len(venues) : heap[venues[k]] = heap[filteredVenues[i]]

(***************************************************************************)
(* The derived ids of the store.                                           *)
(***************************************************************************)
\* the venue has a Venue, a City and a State once trimmed
HasFullId(venue) == \A part \in Range(Key(venue)) : part # Empty

\* C37: in every state no two records of the store have the same derived
\* id (the trimmed, lowercased Venue, City and State, all three non-empty).
C37_DerivedIdsUnique ==
    \A i, j \in 1..Len(venues) :
        (i < j /\ HasFullId(heap[venues[i]]))
            => GetVenueId(heap[venues[i]]) # GetVenueId(heap[venues[j]])

(***************************************************************************)
(* The comparator of the sort as an ordering.                              *)
(***************************************************************************)
\* the comparator of sortByColumn and applyCurrentSort puts a before b in
\* an ascending sort by the column
SortsBefore(a, b, column) == CompareByColumn(a, b, column, "asc") < 0

\* the comparator is transitive on the records
TransitiveOn(records, column) ==
    \A a, b, c \in records :
        (SortsBefore(a, b, column) /\ SortsBefore(b, c, column))
            => SortsBefore(a, c, column)

\* C38: the comparison of sortByColumn and applyCurrentSort is a consistent
\* ordering: on the cells of every column it is transitive (a before b and
\* b before c imply a before c), and in a view that was sorted by a column
\* no record comes after a record the comparison puts behind it.
C38_ComparatorIsOrdering ==
    /\ \A column \in Range(headers) \ {kLastUpdated} :
           TransitiveOn(Range(ViewRecords(This)), column)
    /\ (sortColumn # NoColumn /\ sortColumn # kLastUpdated) =>
           \A i \in 1..(Len(filteredVenues) - 1) :
               CompareByColumn(heap[filteredVenues[i]], heap[filteredVenues[i + 1]],
                               sortColumn, sortDirection) <= 0

\* the comparison is transitive on cells that are all numeric and on cells
\* of which none is
C38_TransitiveOnOneKind ==
    \A column \in Range(headers) \ {kLastUpdated} :
        /\ TransitiveOn({r \in Range(ViewRecords(This)) : IsNumeric(Val(r, column))},
                        column)
        /\ TransitiveOn({r \in Range(ViewRecords(This)) : ~IsNumeric(Val(r, column))},
                        column)

(***************************************************************************)
(* The view settings in memory and in the stored snapshot.                 *)
(***************************************************************************)
NextSettings ==
    \/ DoSortByColumn
    \/ DoApplyFilterModal
    \/ DoClearAllFilters
    \/ DoSaveTimer
    \/ DoApplyColumnToggle
    \/ DoMinVenueInput
    \/ DoChangeHistoryPageSize
    \/ DoHistorySearchPanel
    \/ DoHistorySearchTimer

SpecSettings == InitHistory /\ [][NextSettings]_vars

\* the view settings of a state or of a snapshot
ViewSettings(r) ==
    [hiddenColumns |-> r.hiddenColumns, sortColumn |-> r.sortColumn,
     sortDirection |-> r.sortDirection, pageSize |-> r.pageSize,
     statusFilters |-> r.statusFilters, regionFilters |-> r.regionFilters,
     typeFilters |-> r.typeFilters, minVenueCount |-> r.minVenueCount,
     historyPageSize |-> r.historyPageSize,
     historySearchFilter |-> r.historySearchFilter]

\* no timer is pending and localStorage holds a snapshot and has room
Settled ==
    /\ ~saveTimer /\ ~searchTimer /\ ~historyTimer
    /\ ~quotaExceeded
    /\ storage # <<>>
    /\ storage[1].shape = "object"

\* C39: whenever no timer is pending, the view settings of the stored
\* snapshot (hidden columns, sort column and direction, page size, the three
\* filters, minimum venue count, history page size and history search) are
\* the ones in memory: every handler that changes one of them has saved.
C39_SettingsPersisted ==
    Settled => ViewSettings(storage[1]) = ViewSettings(This)

\* C39 for the settings other than the history search
C39_OtherSettingsPersisted ==
    Settled =>
        [ViewSettings(storage[1]) EXCEPT !.historySearchFilter = Empty]
        = [ViewSettings(This) EXCEPT !.historySearchFilter = Empty]

(***************************************************************************)
(* Opening and closing the edit form, and saving a copy.                   *)
(***************************************************************************)
\* the handlers that open the edit form
FormOpeners == {"editRow", "addNewRow", "copyVenue"}

\* the store, the headers, the history and the stored snapshot are as they
\* were
StoreAndSnapshotKept ==
    /\ StoreRecords(This)' = StoreRecords(This)
    /\ headers' = headers
    /\ history' = history
    /\ storage' = storage

\* C40: editRow, addNewRow and copyVenue open the edit form, and closeModal
\* closes it, without a change to the venues, the headers, the history or
\* the stored snapshot, and closeModal discards the temporary new venue; a
\* saveEdit of a new venue (a copy is one) adds one record at the end of the
\* store and leaves every record the store had, the source of the copy
\* among them, with the values it had.
C40_OpenCloseAndCopy ==
    [][/\ lastOp'.op \in FormOpeners => (StoreAndSnapshotKept /\ modalOpen')
       /\ lastOp'.op = "closeModal" =>
              /\ StoreAndSnapshotKept
              /\ ~modalOpen'
              /\ tempNewVenue' = NullRef
              /\ Len(heap') = Cardinality(Range(venues') \cup Range(filteredVenues'))
       /\ (lastOp'.op = "saveEdit" /\ lastOp'.outcome = "Add") =>
              /\ Len(venues') = Len(venues) + 1
              /\ SubSeq(StoreRecords(This)', 1, Len(venues)) = StoreRecords(This)
              /\ headers' = headers]_vars

\* a copy was saved: the last record of the store is named after another
\* record of the store, with (COPY) added
C40_Witness ==
    /\ lastOp.op = "saveEdit"
    /\ lastOp.outcome = "Add"
    /\ Len(venues) >= 2
    /\ \E k \in 1..(Len(venues) - 1) :
           /\ Val(heap[venues[k]], kVenue) # Empty
           /\ Val(heap[venues[Len(venues)]], kVenue) =
                  Val(heap[venues[k]], kVenue) \o <<SP, "(COPY)">>

\* the form of a new venue was closed without saving: nothing is left of
\* the temporary venue
C40_ClosedUnsaved ==
    /\ lastOp.op = "closeModal"
    /\ venues # <<>>
    /\ tempNewVenue = NullRef
    /\ history = <<>>

====
